---- MODULE Spec2Model ----
(***************************************************************************)
(* Model of the LinkedIn extraction engine                                 *)
(* (working_linkedin_extractor.py): the LinkedInProfile record, the page   *)
(* classifier detect_page_type, the search result collector, the regular   *)
(* expression contact extraction and the dispatcher extract_profile.       *)
(*                                                                         *)
(* Text is modelled as sequences of one-character strings, so that         *)
(* strip(), lower() and the substring test `in` are computed, not assumed. *)
(* A URL handed to the browser is modelled as its '/'-separated segments   *)
(* after the scheme ("https://" + segs joined by "/" + optional "/").      *)
(***************************************************************************)
EXTENDS Integers, Sequences, FiniteSets, TLC

VARIABLES
    pc,           \* position of the running call
    current_url,  \* driver.current_url
    marker,       \* state of ".pv-text-details__right-panel" as last probed
    page_type,    \* value returned by detect_page_type
    probes,       \* number of DOM probes issued by detect_page_type
    exc,          \* where an exception escaped to the caller ("none" if not)
    profile,      \* the LinkedInProfile being built or returned
    profiles,     \* the list built by the search result collector
    page_source,  \* the markup last read through driver.page_source
    cards,        \* number of result cards / contact buttons found on the page
    card_i,       \* index of the next card / contact button to process
    clicks,       \* number of element.click() calls issued
    extracted,    \* number of field-extraction steps run
    args,         \* the arguments of the last LinkedInProfile(...) call
    returned,     \* what the call returned: "nothing", "record" or "list"
    scan,         \* which contact scan filled page_source: "none", "base", "contact"
    rows,         \* table linkedin_profiles (committed rows)
    contacts,     \* table linkedin_contact_info (committed rows)
    next_id,      \* next value of the SERIAL sequence of linkedin_profiles.id
    now,          \* CURRENT_TIMESTAMP, one tick per save_profile call
    db_ret,       \* identifier returned by the last save_profile (0: none)
    saves,        \* history of the successful save_profile calls
    fetched,      \* what the last get_profile_by_url returned
    batch,        \* the input list of the running bulk call
    batch_i,      \* index of the next item of the batch
    tally,        \* the counters the bulk call reports
    attempted,    \* indexes of the items attempted, in order of attempt
    dom,          \* what the page's locators yield, once the fields are matched
    browser,      \* the running create_enhanced_browser call
    sessions      \* the browser sessions of a run of main(): opened, quit

run_vars == <<browser, sessions>>
store_vars == <<rows, contacts, next_id, now, db_ret, saves, fetched>>
bulk_vars == <<batch, batch_i, tally, attempted>>

vars == <<pc, current_url, marker, page_type, probes, exc, profile, profiles,
          page_source, cards, card_i, clicks, extracted, args, returned, scan,
          store_vars, bulk_vars, dom, run_vars>>

---------------------------------------------------------------------------
(* Bounds of the model *)
MaxPath == 3      \* longest URL, in segments
MaxList == 1      \* longest contact list handed to the constructor
MaxCards == 11    \* most result cards on a search page
MaxMarkup == 2    \* most contact tokens in the base page markup
MaxModal == 1     \* most contact tokens in a modal's markup
MaxButtons == 3   \* most contact buttons found on a Sales Navigator page
MaxSaves == 3     \* most save_profile calls on one database
MaxBatch == 3     \* longest input list of a bulk call

(* Program constants *)
max_items == 10         \* profile_cards[:10]
max_contact_buttons == 2  \* contact_buttons[:2]

---------------------------------------------------------------------------
(* Text helpers: Python str operations on character sequences *)

LowerAlphabet == <<"a", "b", "c", "d", "e", "f", "g", "h", "i", "j", "k", "l", "m", "n", "o", "p", "q", "r", "s", "t", "u", "v", "w", "x", "y", "z">>
UpperAlphabet == <<"A", "B", "C", "D", "E", "F", "G", "H", "I", "J", "K", "L", "M", "N", "O", "P", "Q", "R", "S", "T", "U", "V", "W", "X", "Y", "Z">>

\* str.lower() on one character
LowerChar(c) ==
    IF \E i \in 1..26 : UpperAlphabet[i] = c
    THEN LowerAlphabet[CHOOSE i \in 1..26 : UpperAlphabet[i] = c]
    ELSE c

\* str.lower()
Lower(s) == [i \in 1..Len(s) |-> LowerChar(s[i])]

\* `sub in s` for str
Contains(s, sub) ==
    \E i \in 0..(Len(s) - Len(sub)) :
        \A j \in 1..Len(sub) : s[i + j] = sub[j]

\* s.startswith(p), used to model the anchored head of a regular expression
HasPrefix(s, p) ==
    /\ Len(p) <= Len(s)
    /\ \A j \in 1..Len(p) : s[j] = p[j]

IsSpace(c) == c = " "

RECURSIVE LStrip(_)
LStrip(s) ==
    IF s # <<>> /\ IsSpace(Head(s)) THEN LStrip(Tail(s)) ELSE s

RECURSIVE RStrip(_)
RStrip(s) ==
    IF s # <<>> /\ IsSpace(s[Len(s)]) THEN RStrip(SubSeq(s, 1, Len(s) - 1)) ELSE s

\* str.strip()
Strip(s) == RStrip(LStrip(s))

\* `x in lst` for list
InList(x, lst) == \E i \in 1..Len(lst) : lst[i] = x

\* lst.count(x)
Count(x, lst) == Cardinality({i \in 1..Len(lst) : lst[i] = x})

\* all sequences over S of length at most n
SeqUpTo(S, n) == UNION {[1..k -> S] : k \in 0..n}

---------------------------------------------------------------------------
(* LinkedInProfile: the profile record (dataclass) *)

ListFields == {"emails", "phones", "websites", "social_links", "addresses"}

\* the str "" as a URL
EmptyUrl == [segs |-> <<>>, slash |-> FALSE]

\* Field defaults of the dataclass.  A list field whose value is None is
\* named in `none` (its entry in the record is then a placeholder).
\* company_linkedin_url, date_added, headline and connections_count are
\* never read or written by the extractor and are left out.
DefaultArgs ==
    [full_name |-> <<>>, linkedin_url |-> EmptyUrl,
     role |-> <<>>, company |-> <<>>, geography |-> <<>>,
     about |-> <<>>, location |-> <<>>,
     emails |-> <<>>, phones |-> <<>>, websites |-> <<>>,
     social_links |-> <<>>, addresses |-> <<>>,
     none |-> ListFields,
     profile_type |-> "unknown",
     extraction_timestamp |-> "",
     extraction_success |-> FALSE]

\* one `if self.f is None: self.f = []` of __post_init__
InitList(p, f) ==
    IF f \in p.none THEN [p EXCEPT ![f] = <<>>, !.none = @ \ {f}] ELSE p

\* `if not self.extraction_timestamp: ... utcnow().isoformat()`
InitTimestamp(p) ==
    IF p.extraction_timestamp = ""
    THEN [p EXCEPT !.extraction_timestamp = "now"] ELSE p

\* mutant: the initializer forgets the last list field
post_init_skips_addresses(p) ==
    InitTimestamp(InitList(InitList(InitList(InitList(p,
        "emails"), "phones"), "websites"), "social_links"))

\* LinkedInProfile.__post_init__
post_init(p) ==
    InitTimestamp(InitList(InitList(InitList(InitList(InitList(p,
        "emails"), "phones"), "websites"), "social_links"), "addresses"))

\* mutant: the constructor derives the flag from the name
LinkedInProfile_derives_success(a) ==
    post_init([a EXCEPT !.extraction_success = (a.full_name # <<>>)])

\* LinkedInProfile(**a): the generated __init__ stores every argument and
\* then runs __post_init__
LinkedInProfile(a) == post_init(a)

\* profile = LinkedInProfile(): the record a flow starts from
FreshRecord == LinkedInProfile(DefaultArgs)

\* sample texts
Ann == <<"A", "n", "n">>
Bob == <<"B", "o", "b">>
AnnPadded == <<" ", "A", "n", "n", " ">>
Blank == <<" ", " ">>
SomeRole == <<"E", "n", "g", "i", "n", "e", "e", "r">>
SomeCompany == <<"A", "c", "m", "e">>
SomePlace == <<"O", "s", "l", "o">>
SomeValue == <<"v">>
ProfileUrl == [segs |-> <<"x", "in", "x">>, slash |-> FALSE]

\* the list values a caller hands to the constructor
ListArgs == SeqUpTo({SomeValue}, MaxList)

\* constructor arguments: default, partially and fully populated
CtorArgs ==
    { [DefaultArgs EXCEPT
         !.full_name = n,
         !.extraction_success = s,
         !.extraction_timestamp = t,
         !.role = IF filled THEN SomeRole ELSE <<>>,
         !.company = IF filled THEN SomeCompany ELSE <<>>,
         !.geography = IF filled THEN SomePlace ELSE <<>>,
         !.linkedin_url = IF filled THEN ProfileUrl ELSE EmptyUrl,
         !.emails = IF "emails" \in nn THEN <<>> ELSE l[1],
         !.phones = IF "phones" \in nn THEN <<>> ELSE l[2],
         !.websites = IF "websites" \in nn THEN <<>> ELSE l[3],
         !.social_links = IF "social_links" \in nn THEN <<>> ELSE l[4],
         !.addresses = IF "addresses" \in nn THEN <<>> ELSE l[5],
         !.none = nn] :
      n \in {<<>>, Ann}, s \in BOOLEAN, t \in {"", "t0"}, filled \in BOOLEAN,
      nn \in SUBSET ListFields, l \in [1..5 -> ListArgs] }

---------------------------------------------------------------------------
(* URLs and the page classifier *)

Segments == {"sales", "lead", "search", "lists", "in", "company", "x"}

Urls == {[segs |-> s, slash |-> b] : s \in SeqUpTo(Segments, MaxPath), b \in BOOLEAN}

\* "/a/" in url
HasSeg(u, a) ==
    \E i \in 1..Len(u.segs) :
        /\ u.segs[i] = a
        /\ (i < Len(u.segs) \/ u.slash)

\* "/a/b/" in url
HasSegPair(u, a, b) ==
    \E i \in 1..(Len(u.segs) - 1) :
        /\ u.segs[i] = a
        /\ u.segs[i + 1] = b
        /\ (i + 1 < Len(u.segs) \/ u.slash)

\* the pages of the test suite's URLs
LeadPageUrl == [segs |-> <<"x", "sales", "lead", "x">>, slash |-> FALSE]
SearchUrl == [segs |-> <<"x", "sales", "search", "x">>, slash |-> FALSE]
InPageUrl == [segs |-> <<"x", "in", "x">>, slash |-> FALSE]
CompanyUrl == [segs |-> <<"x", "company", "x">>, slash |-> FALSE]
OtherUrl == [segs |-> <<"x">>, slash |-> FALSE]

Categories ==
    {"sales_navigator_profile", "sales_navigator_search",
     "authenticated_profile", "public_profile", "company_page", "unknown"}

\* find_element on the marker: the element, NoSuchElementException, or
\* another WebDriverException
MarkerStates == {"present", "absent", "error"}

\* reading driver.current_url: the URL, or a WebDriverException
ReadStates == {"ok", "error"}

Returned(c) == [ret |-> c, raised |-> "none", probes |-> 0]
Raised(where, n) == [ret |-> "none", raised |-> where, probes |-> n]

\* the try/except around the marker probe
ProbeMarker(m) ==
    CASE m = "present" -> [Returned("authenticated_profile") EXCEPT !.probes = 1]
      [] m = "absent"  -> [Returned("public_profile") EXCEPT !.probes = 1]
      [] OTHER         -> Raised("probe", 1)

\* mutant: the profile rule is tested before the Sales Navigator rules
detect_page_type_in_first(rd, u, m) ==
    IF rd = "error" THEN Raised("current_url", 0)
    ELSE IF HasSeg(u, "in") THEN ProbeMarker(m)
    ELSE IF HasSegPair(u, "sales", "lead") THEN Returned("sales_navigator_profile")
    ELSE IF HasSegPair(u, "sales", "search") \/ HasSegPair(u, "sales", "lists")
         THEN Returned("sales_navigator_search")
    ELSE IF HasSeg(u, "company") THEN Returned("company_page")
    ELSE Returned("unknown")

\* mutant: the two outcomes of the marker probe are exchanged
detect_page_type_probe_swapped(rd, u, m) ==
    IF rd = "error" THEN Raised("current_url", 0)
    ELSE IF HasSegPair(u, "sales", "lead") THEN Returned("sales_navigator_profile")
    ELSE IF HasSegPair(u, "sales", "search") \/ HasSegPair(u, "sales", "lists")
         THEN Returned("sales_navigator_search")
    ELSE IF HasSeg(u, "in")
         THEN ProbeMarker(CASE m = "present" -> "absent"
                            [] m = "absent" -> "present"
                            [] OTHER -> m)
    ELSE IF HasSeg(u, "company") THEN Returned("company_page")
    ELSE Returned("unknown")

\* mutant: the company rule is tested before the profile rule
detect_page_type_company_first(rd, u, m) ==
    IF rd = "error" THEN Raised("current_url", 0)
    ELSE IF HasSegPair(u, "sales", "lead") THEN Returned("sales_navigator_profile")
    ELSE IF HasSegPair(u, "sales", "search") \/ HasSegPair(u, "sales", "lists")
         THEN Returned("sales_navigator_search")
    ELSE IF HasSeg(u, "company") THEN Returned("company_page")
    ELSE IF HasSeg(u, "in") THEN ProbeMarker(m)
    ELSE Returned("unknown")

\* WorkingLinkedInExtractor.detect_page_type
\* rd: outcome of reading driver.current_url, u: the URL, m: marker state
detect_page_type(rd, u, m) ==
    IF rd = "error" THEN Raised("current_url", 0)
    ELSE IF HasSegPair(u, "sales", "lead") THEN Returned("sales_navigator_profile")
    ELSE IF HasSegPair(u, "sales", "search") \/ HasSegPair(u, "sales", "lists")
         THEN Returned("sales_navigator_search")
    ELSE IF HasSeg(u, "in") THEN ProbeMarker(m)
    ELSE IF HasSeg(u, "company") THEN Returned("company_page")
    ELSE Returned("unknown")

---------------------------------------------------------------------------
(* Specification SpecRecord: constructing a LinkedInProfile *)

\* no page has been matched
NoDom == [kind |-> "none"]

\* no browser is being created, no session was opened
NoBrowser == [kind |-> "none"]
NoSessions == [main |-> "none", demo |-> "none", flags |-> {}]
RunIdle ==
    /\ browser = NoBrowser
    /\ sessions = NoSessions

\* no fetch result yet (row: placeholder)
NoRow == [id |-> 0]
NotFetched ==
    [called |-> FALSE, url |-> EmptyUrl, at |-> 0, none |-> TRUE, row |-> NoRow]

\* the database as init_database leaves it: empty tables, fresh sequence
StoreIdle ==
    /\ rows = {}
    /\ contacts = {}
    /\ next_id = 1
    /\ now = 0
    /\ db_ret = 0
    /\ saves = <<>>
    /\ fetched = NotFetched

\* no bulk call is running
BulkIdle ==
    /\ batch = <<>>
    /\ batch_i = 0
    /\ tally = [saved |-> 0, updated |-> 0, failed |-> 0]
    /\ attempted = <<>>

InitRecord ==
    /\ pc = "new"
    /\ args = DefaultArgs
    /\ profile = DefaultArgs
    /\ current_url = EmptyUrl
    /\ marker = "unprobed"
    /\ page_type = "none"
    /\ probes = 0
    /\ exc = "none"
    /\ profiles = <<>>
    /\ page_source = <<>>
    /\ cards = 0
    /\ card_i = 0
    /\ clicks = 0
    /\ extracted = 0
    /\ returned = "nothing"
    /\ scan = "none"
    /\ StoreIdle
    /\ dom = NoDom
    /\ RunIdle
    /\ BulkIdle

\* profile = LinkedInProfile(...)
Construct ==
    /\ pc = "new"
    /\ \E a \in CtorArgs :
        /\ args' = a
        /\ profile' = LinkedInProfile(a)
    /\ pc' = "constructed"
    /\ UNCHANGED <<current_url, marker, page_type, probes, exc, profiles,
                   page_source, cards, card_i, clicks, extracted, returned, scan,
                   store_vars, bulk_vars, dom, run_vars>>

\* profile.<list field> = None
SetListNone ==
    /\ pc = "constructed"
    /\ \E f \in ListFields :
        profile' = [profile EXCEPT ![f] = <<>>, !.none = @ \cup {f}]
    /\ pc' = "noned"
    /\ UNCHANGED <<current_url, marker, page_type, probes, exc, profiles,
                   page_source, cards, card_i, clicks, extracted, args, returned, scan,
                   store_vars, bulk_vars, dom, run_vars>>

\* profile.__post_init__()  (re-initialize)
RunPostInit ==
    /\ pc = "noned"
    /\ profile' = post_init(profile)
    /\ pc' = "reinit"
    /\ UNCHANGED <<current_url, marker, page_type, probes, exc, profiles,
                   page_source, cards, card_i, clicks, extracted, args, returned, scan,
                   store_vars, bulk_vars, dom, run_vars>>

NextRecord == Construct \/ SetListNone \/ RunPostInit

SpecRecord == InitRecord /\ [][NextRecord]_vars

---------------------------------------------------------------------------
(* Specification SpecClassify: detect_page_type on every URL and DOM state *)

InitClassify ==
    /\ pc = "classify"
    /\ current_url \in Urls
    /\ marker \in MarkerStates
    /\ page_type = "none"
    /\ probes = 0
    /\ exc = "none"
    /\ args = DefaultArgs
    /\ profile = DefaultArgs
    /\ profiles = <<>>
    /\ page_source = <<>>
    /\ cards = 0
    /\ card_i = 0
    /\ clicks = 0
    /\ extracted = 0
    /\ returned = "nothing"
    /\ scan = "none"
    /\ StoreIdle
    /\ dom = NoDom
    /\ RunIdle
    /\ BulkIdle

\* page_type = self.detect_page_type()
DetectPageType ==
    /\ pc = "classify"
    /\ \E rd \in ReadStates :
        LET r == detect_page_type(rd, current_url, marker) IN
        /\ page_type' = r.ret
        /\ exc' = r.raised
        /\ probes' = probes + r.probes
    /\ pc' = "classified"
    /\ UNCHANGED <<current_url, marker, profile, profiles, page_source,
                   cards, card_i, clicks, extracted, args, returned, scan,
                   store_vars, bulk_vars, dom, run_vars>>

NextClassify == DetectPageType

SpecClassify == InitClassify /\ [][NextClassify]_vars

---------------------------------------------------------------------------
(* Element lookups and the search result collector *)

\* Outcome of find_element(...) followed by reading the element's text:
\* an element with its text, NoSuchElementException, or another exception
\* (WebDriverException, StaleElementReferenceException)
Elem(t) == [tag |-> "elem", text |-> t]
Miss == [tag |-> "miss", text |-> <<>>]
Err == [tag |-> "error", text |-> <<>>]

Matched(v) == [found |-> TRUE, value |-> v, raised |-> FALSE]
NoMatch == [found |-> FALSE, value |-> <<>>, raised |-> FALSE]
MatchRaised == [found |-> FALSE, value |-> <<>>, raised |-> TRUE]

\* for selector in selectors:
\*     try:    elem = find_element(selector)
\*             if elem.text.strip(): field = elem.text.strip(); break
\*     except NoSuchElementException: continue
RECURSIVE FirstText(_, _)
FirstText(outs, i) ==
    IF i > Len(outs) THEN NoMatch
    ELSE CASE outs[i].tag = "miss"  -> FirstText(outs, i + 1)
           [] outs[i].tag = "error" -> MatchRaised
           [] OTHER -> IF Strip(outs[i].text) # <<>>
                       THEN Matched(Strip(outs[i].text))
                       ELSE FirstText(outs, i + 1)

\* a result card: what each locator yields inside it, and its first link
\* (link.tag "elem": href attribute value, EmptyUrl for a missing href)
Card(n, r, c, l, k, h) ==
    [name |-> n, role |-> r, company |-> c, location |-> l,
     link |-> k, href |-> h]


\* representative cards
CardFull ==
    Card(<<Elem(Ann), Elem(Bob), Miss, Miss>>, <<Elem(SomeRole), Miss, Miss>>,
         <<Elem(SomeCompany), Miss, Miss>>, <<Elem(SomePlace), Miss, Miss>>,
         "elem", LeadPageUrl)
CardFallback ==
    Card(<<Miss, Elem(Blank), Elem(AnnPadded), Elem(Bob)>>, <<Miss, Miss, Miss>>,
         <<Miss, Miss, Miss>>, <<Miss, Elem(Blank), Miss>>, "miss", EmptyUrl)
CardNameless ==
    Card(<<Miss, Elem(Blank), Miss, Elem(<<>>)>>, <<Elem(SomeRole), Miss, Miss>>,
         <<Elem(SomeCompany), Miss, Miss>>, <<Miss, Miss, Miss>>, "elem", LeadPageUrl)
CardNameError ==
    Card(<<Miss, Err, Elem(Ann), Miss>>, <<Miss, Miss, Miss>>,
         <<Miss, Miss, Miss>>, <<Miss, Miss, Miss>>, "elem", LeadPageUrl)
CardLateError ==
    Card(<<Elem(Ann), Miss, Miss, Miss>>, <<Elem(SomeRole), Miss, Miss>>,
         <<Miss, Miss, Miss>>, <<Miss, Miss, Miss>>, "error", EmptyUrl)

CardKinds == {CardFull, CardFallback, CardNameless, CardNameError, CardLateError}

\* mutant: every card's record is appended, found name or not
process_card_appends_all(c) ==
    LET n == FirstText(c.name, 1)
        r == FirstText(c.role, 1)
        co == FirstText(c.company, 1)
        l == FirstText(c.location, 1)
        base == [LinkedInProfile(DefaultArgs) EXCEPT
                    !.profile_type = "sales_navigator_search"]
        p == [base EXCEPT
                !.full_name = IF n.found THEN n.value ELSE @,
                !.role = IF r.found THEN r.value ELSE @,
                !.company = IF co.found THEN co.value ELSE @,
                !.geography = IF l.found THEN l.value ELSE @,
                !.linkedin_url = IF c.link = "elem" /\ c.href # EmptyUrl
                                 THEN c.href ELSE @,
                !.extraction_success = (IF n.found THEN n.value ELSE <<>>) # <<>>]
    IN  IF n.raised \/ r.raised \/ co.raised \/ l.raised \/ c.link = "error"
        THEN [append |-> FALSE, raised |-> TRUE, record |-> base]
        ELSE [append |-> TRUE, raised |-> FALSE, record |-> p]

\* the body of the loop over profile_cards[:10]: the record built from one
\* card, whether it is appended, and whether the per-card handler caught an
\* exception
process_card(c) ==
    LET n == FirstText(c.name, 1)
        r == FirstText(c.role, 1)
        co == FirstText(c.company, 1)
        l == FirstText(c.location, 1)
        base == [LinkedInProfile(DefaultArgs) EXCEPT
                    !.profile_type = "sales_navigator_search"]
        p == [base EXCEPT
                !.full_name = IF n.found THEN n.value ELSE @,
                !.role = IF r.found THEN r.value ELSE @,
                !.company = IF co.found THEN co.value ELSE @,
                !.geography = IF l.found THEN l.value ELSE @,
                !.linkedin_url = IF c.link = "elem" /\ c.href # EmptyUrl
                                 THEN c.href ELSE @,
                !.extraction_success = (IF n.found THEN n.value ELSE <<>>) # <<>>]
    IN  IF n.raised \/ r.raised \/ co.raised \/ l.raised \/ c.link = "error"
        THEN [append |-> FALSE, raised |-> TRUE, record |-> base]
        ELSE [append |-> p.extraction_success, raised |-> FALSE, record |-> p]

\* mutant: the slice profile_cards[:10] is dropped
cards_to_process_all(n) == n

\* len(profile_cards[:10])
cards_to_process(n) == IF n < max_items THEN n ELSE max_items

\* profile_cards = find_elements(primary) [or find_elements(alternative)]
\* n1, n2: number of elements each lookup yields, -1 when it raises; the
\* outer handler turns an exception into the empty result
FindCards ==
    /\ pc = "search_start"
    /\ \E n1 \in (-1)..MaxCards, n2 \in (-1)..MaxCards :
        IF n1 = -1 \/ (n1 = 0 /\ n2 = -1)
        THEN /\ cards' = 0
             /\ card_i' = 0
             /\ pc' = "done"
             /\ returned' = "list"
        ELSE /\ cards' = IF n1 > 0 THEN n1 ELSE n2
             /\ card_i' = 1
             /\ pc' = "search_cards"
             /\ UNCHANGED returned
    /\ profiles' = <<>>
    /\ UNCHANGED <<current_url, marker, page_type, probes, exc, profile,
                   page_source, clicks, extracted, args, scan,
                   store_vars, bulk_vars, dom, run_vars>>

\* mutant: a card whose processing raises ends the loop
ProcessCard_stops_on_failure ==
    /\ pc = "search_cards"
    /\ card_i <= cards_to_process(cards)
    /\ \E c \in CardKinds :
        LET r == process_card(c) IN
        /\ profile' = r.record
        /\ profiles' = IF r.append THEN Append(profiles, r.record) ELSE profiles
        /\ pc' = IF r.raised THEN "done" ELSE pc
        /\ returned' = IF r.raised THEN "list" ELSE returned
    /\ card_i' = card_i + 1
    /\ extracted' = extracted + 1
    /\ UNCHANGED <<current_url, marker, page_type, probes, exc,
                   page_source, cards, clicks, args, scan,
                   store_vars, bulk_vars, dom, run_vars>>

\* one iteration of `for i, card in enumerate(profile_cards[:10])`
ProcessCard ==
    /\ pc = "search_cards"
    /\ card_i <= cards_to_process(cards)
    /\ \E c \in CardKinds :
        LET r == process_card(c) IN
        /\ profile' = r.record
        /\ profiles' = IF r.append THEN Append(profiles, r.record) ELSE profiles
    /\ card_i' = card_i + 1
    /\ extracted' = extracted + 1
    /\ UNCHANGED <<pc, current_url, marker, page_type, probes, exc,
                   page_source, cards, clicks, args, returned, scan,
                   store_vars, bulk_vars, dom, run_vars>>

\* return profiles
FinishSearch ==
    /\ pc = "search_cards"
    /\ card_i > cards_to_process(cards)
    /\ pc' = "done"
    /\ returned' = "list"
    /\ UNCHANGED <<current_url, marker, page_type, probes, exc, profile,
                   profiles, page_source, cards, card_i, clicks, extracted, args, scan,
                   store_vars, bulk_vars, dom, run_vars>>

InitSearch ==
    /\ pc = "search_start"
    /\ current_url = SearchUrl
    /\ marker = "unprobed"
    /\ page_type = "sales_navigator_search"
    /\ probes = 0
    /\ exc = "none"
    /\ args = DefaultArgs
    /\ profile = DefaultArgs
    /\ profiles = <<>>
    /\ page_source = <<>>
    /\ cards = 0
    /\ card_i = 0
    /\ clicks = 0
    /\ extracted = 0
    /\ returned = "nothing"
    /\ scan = "none"
    /\ StoreIdle
    /\ dom = NoDom
    /\ RunIdle
    /\ BulkIdle

NextSearch == FindCards \/ ProcessCard \/ FinishSearch

SpecSearch == InitSearch /\ [][NextSearch]_vars

---------------------------------------------------------------------------
(* Contact extraction: regular expressions over the page markup *)

(* The markup is modelled as the sequence of contact-like tokens it holds,  *)
(* "<p> " + tokens joined by " " + " </p>": no match spans two tokens, and  *)
(* re.findall(pattern, markup) is the concatenation, in token order, of    *)
(* the pattern's matches inside each token.                                 *)

EmailLower == <<"j", "@", "x", ".", "i", "o">>
EmailMixed == <<"J", "@", "X", ".", "i", "o">>
EmailMailto == <<"m", "a", "i", "l", "t", "o", ":", "J", "@", "x", ".", "i", "o">>
UrlExternal == <<"h", "t", "t", "p", ":", "/", "/", "j", ".", "i", "o">>
UrlSelf == <<"h", "t", "t", "p", ":", "/", "/", "l", "i", "n", "k", "e", "d", "i", "n", ".", "c", "o", "m", "/", "j">>
UrlSelfCased == <<"h", "t", "t", "p", ":", "/", "/", "L", "i", "n", "k", "e", "d", "I", "n", ".", "c", "o", "m", "/", "j">>
UrlWww == <<"w", "w", "w", ".", "j", ".", "i", "o">>
PhoneParens == <<"(", "4", "1", "5", ")", " ", "5", "5", "5", "-", "0", "1", "0", "0">>
PhoneIntl == <<"+", "1", "4", "1", "5", "5", "5", "5", "0", "1", "0", "0">>

Tokens == {EmailLower, EmailMixed, EmailMailto, UrlExternal, UrlSelf,
           UrlSelfCased, UrlWww, PhoneParens, PhoneIntl}

\* tokens of a contact modal
ModalTokens == {EmailLower, EmailMixed, UrlExternal, PhoneParens}

Markups == SeqUpTo(Tokens, MaxMarkup)
ModalMarkups == SeqUpTo(ModalTokens, MaxModal)

At == <<"@">>
MailtoScheme == <<"m", "a", "i", "l", "t", "o", ":">>
HttpScheme == <<"h", "t", "t", "p", ":", "/", "/">>
HttpsScheme == <<"h", "t", "t", "p", "s", ":", "/", "/">>
WwwDot == <<"w", "w", "w", ".">>
Slash == "/"
SelfDomain == <<"l", "i", "n", "k", "e", "d", "i", "n", ".", "c", "o", "m">>

Digits == {"0", "1", "2", "3", "4", "5", "6", "7", "8", "9"}

RECURSIVE Flatten(_)
Flatten(ss) == IF ss = <<>> THEN <<>> ELSE Head(ss) \o Flatten(Tail(ss))

\* the address inside an e-mail token (after a "mailto:" scheme, if any)
Address(t) ==
    IF HasPrefix(Lower(t), MailtoScheme)
    THEN SubSeq(t, Len(MailtoScheme) + 1, Len(t)) ELSE t

\* r'\b[A-Za-z0-9._%+-]+@[A-Za-z0-9.-]+\.[A-Z|a-z]{2,}\b'  (the character
\* classes name both letter cases: re.IGNORECASE changes nothing)
email_pattern(t) == IF Contains(t, At) THEN <<Address(t)>> ELSE <<>>

\* r'mailto:([A-Za-z0-9._%+-]+@[A-Za-z0-9.-]+\.[A-Z|a-z]{2,})', re.IGNORECASE
mailto_pattern(t) ==
    IF Contains(t, At) /\ HasPrefix(Lower(t), MailtoScheme)
    THEN <<Address(t)>> ELSE <<>>

\* r'\+?1?[-.\s]?\(?[0-9]{3}\)?[-.\s]?[0-9]{3}[-.\s]?[0-9]{4}': on the phone
\* tokens, the optional [-.\s] takes the space in front of a token that
\* does not begin with '+'
phone_pattern_us(t) ==
    CASE t = PhoneParens -> << <<" ">> \o t >>
      [] t = PhoneIntl   -> <<t>>
      [] OTHER           -> <<>>

\* r'\+[1-9]\d{1,14}'
phone_pattern_intl(t) ==
    IF /\ Len(t) >= 3 /\ Len(t) <= 16
       /\ t[1] = "+" /\ t[2] \in Digits \ {"0"}
       /\ \A i \in 3..Len(t) : t[i] \in Digits
    THEN <<t>> ELSE <<>>

\* r'\([0-9]{3}\)\s?[0-9]{3}-[0-9]{4}'
phone_pattern_parens(t) ==
    IF /\ Len(t) = 14
       /\ t[1] = "(" /\ t[5] = ")" /\ t[6] = " " /\ t[10] = "-"
       /\ \A i \in {2, 3, 4, 7, 8, 9, 11, 12, 13, 14} : t[i] \in Digits
    THEN <<t>> ELSE <<>>

\* r'https?://...' with re.IGNORECASE (Sales Navigator flow)
url_pattern_nocase(t) ==
    IF HasPrefix(Lower(t), HttpScheme) \/ HasPrefix(Lower(t), HttpsScheme)
    THEN <<t>> ELSE <<>>

\* r'https?://...' without flags (authenticated flow)
url_pattern(t) ==
    IF HasPrefix(t, HttpScheme) \/ HasPrefix(t, HttpsScheme)
    THEN <<t>> ELSE <<>>

\* r'www\.[\w.-]+\.[a-z]{2,}', re.IGNORECASE: from the first "www." to the
\* end of the host name
www_pattern(t) ==
    LET starts == {i \in 1..Len(t) :
                     HasPrefix(SubSeq(Lower(t), i, Len(t)), WwwDot)}
    IN  IF starts = {} \/ Contains(t, At) THEN <<>>
        ELSE LET s == CHOOSE i \in starts : \A j \in starts : i <= j
                 ends == {i \in s..Len(t) : t[i] = Slash}
                 e == IF ends = {} THEN Len(t)
                      ELSE (CHOOSE i \in ends : \A j \in ends : i <= j) - 1
             IN  <<SubSeq(t, s, e)>>

\* the matches of one of the patterns inside one token
Matches(pattern, t) ==
    CASE pattern = "email"        -> email_pattern(t)
      [] pattern = "mailto"       -> mailto_pattern(t)
      [] pattern = "phone_us"     -> phone_pattern_us(t)
      [] pattern = "phone_intl"   -> phone_pattern_intl(t)
      [] pattern = "phone_parens" -> phone_pattern_parens(t)
      [] pattern = "url_nocase"   -> url_pattern_nocase(t)
      [] pattern = "url"          -> url_pattern(t)
      [] pattern = "www"          -> www_pattern(t)

\* re.findall(pattern, markup)
FindAll(pattern, markup) ==
    Flatten([i \in 1..Len(markup) |-> Matches(pattern, markup[i])])

\* re.sub(r'[^\d+]', '', phone)
clean_phone(p) == SelectSeq(p, LAMBDA c : c \in Digits \/ c = "+")

\* for email in emails:
\*     if email not in profile.emails and '@' in email:
\*         profile.emails.append(email.lower())
RECURSIVE add_emails(_, _, _)
add_emails(lst, found, i) ==
    IF i > Len(found) THEN lst
    ELSE add_emails(IF ~InList(found[i], lst) /\ Contains(found[i], At)
                    THEN Append(lst, Lower(found[i])) ELSE lst,
                    found, i + 1)

\* for email in modal_emails:
\*     if email not in profile.emails: profile.emails.append(email.lower())
RECURSIVE add_modal_emails(_, _, _)
add_modal_emails(lst, found, i) ==
    IF i > Len(found) THEN lst
    ELSE add_modal_emails(IF ~InList(found[i], lst)
                          THEN Append(lst, Lower(found[i])) ELSE lst,
                          found, i + 1)

\* for phone in phones:
\*     cleaned_phone = re.sub(...)
\*     if len(cleaned_phone) >= 10 and cleaned_phone not in profile.phones:
\*         profile.phones.append(phone)
RECURSIVE add_phones(_, _, _)
add_phones(lst, found, i) ==
    IF i > Len(found) THEN lst
    ELSE add_phones(IF /\ Len(clean_phone(found[i])) >= 10
                       /\ ~InList(clean_phone(found[i]), lst)
                    THEN Append(lst, found[i]) ELSE lst,
                    found, i + 1)

\* mutant: a website found again is dropped from the list
RECURSIVE add_websites_toggles(_, _, _)
add_websites_toggles(lst, found, i) ==
    IF i > Len(found) THEN lst
    ELSE add_websites_toggles(
            IF Contains(found[i], SelfDomain) THEN lst
            ELSE IF InList(found[i], lst)
                 THEN SelectSeq(lst, LAMBDA w : w # found[i])
                 ELSE Append(lst, found[i]),
            found, i + 1)

\* for website in websites:
\*     if website not in profile.websites and 'linkedin.com' not in website:
\*         profile.websites.append(website)
RECURSIVE add_websites(_, _, _)
add_websites(lst, found, i) ==
    IF i > Len(found) THEN lst
    ELSE add_websites(IF ~InList(found[i], lst) /\ ~Contains(found[i], SelfDomain)
                      THEN Append(lst, found[i]) ELSE lst,
                      found, i + 1)

\* the base-page scan of _extract_sales_navigator_contact_info: every
\* pattern of email_patterns, phone_patterns and url_patterns in turn
scan_base(p, markup) ==
    [p EXCEPT
       !.emails = add_emails(add_emails(@, FindAll("email", markup), 1),
                             FindAll("mailto", markup), 1),
       !.phones = add_phones(add_phones(add_phones(@,
                             FindAll("phone_us", markup), 1),
                             FindAll("phone_intl", markup), 1),
                             FindAll("phone_parens", markup), 1),
       !.websites = add_websites(add_websites(@,
                             FindAll("url_nocase", markup), 1),
                             FindAll("www", markup), 1)]

\* the modal scan of _extract_sales_navigator_contact_info
scan_modal(p, markup) ==
    [p EXCEPT !.emails = add_modal_emails(@, FindAll("email", markup), 1)]

\* [f(x) for x in found if x not in lst]: the list is tested as it was
\* before the extend
NotYetIn(found, lst) == SelectSeq(found, LAMBDA x : ~InList(x, lst))

\* the modal scan of _extract_contact_info: three list.extend calls
scan_contact_modal(p, markup) ==
    [p EXCEPT
       !.emails = @ \o [i \in 1..Len(NotYetIn(FindAll("email", markup), @))
                          |-> Lower(NotYetIn(FindAll("email", markup), @)[i])],
       !.phones = @ \o NotYetIn(FindAll("phone_us", markup), @),
       !.websites = @ \o SelectSeq(NotYetIn(FindAll("url", markup), @),
                                   LAMBDA w : ~Contains(w, SelfDomain))]

---------------------------------------------------------------------------
(* The two contact flows *)

min2(a, b) == IF a < b THEN a ELSE b

\* element.click(): done, or an exception
ClickStates == {"ok", "error"}

\* _extract_sales_navigator_contact_info, first half: read the markup and
\* run the e-mail, phone and website patterns over it.  A failing read is
\* caught by the function's own handler, which ends the function.
SNScanBase ==
    /\ pc = "sn_contact"
    /\ \E rd \in ReadStates, m \in Markups :
        IF rd = "error"
        THEN /\ pc' = "sn_about"
             /\ UNCHANGED <<profile, page_source, scan>>
        ELSE /\ pc' = "sn_buttons"
             /\ page_source' = m
             /\ scan' = "base"
             /\ profile' = scan_base(profile, m)
    /\ extracted' = extracted + 1
    /\ UNCHANGED <<current_url, marker, page_type, probes, exc, profiles,
                   cards, card_i, clicks, args, returned,
                   store_vars, bulk_vars, dom, run_vars>>

\* mutant: a failing button lookup is not caught
SNFindButtons_uncaught ==
    /\ pc = "sn_buttons"
    /\ \E n \in (-1)..MaxButtons :
        IF n = -1
        THEN /\ pc' = "raised"
             /\ exc' = "find_elements"
             /\ UNCHANGED <<cards, card_i>>
        ELSE /\ pc' = "sn_modal"
             /\ cards' = n
             /\ card_i' = 1
             /\ UNCHANGED exc
    /\ UNCHANGED <<current_url, marker, page_type, probes, profile,
                   profiles, page_source, clicks, extracted, args, returned, scan,
                   store_vars, bulk_vars, dom, run_vars>>

\* contact_buttons = find_elements("button[aria-label*='contact'], .contact-info")
\* n: the number of buttons, -1 when the lookup raises (caught, logged)
SNFindButtons ==
    /\ pc = "sn_buttons"
    /\ \E n \in (-1)..MaxButtons :
        IF n = -1
        THEN /\ pc' = "sn_about"
             /\ cards' = -1
             /\ UNCHANGED card_i
        ELSE /\ pc' = "sn_modal"
             /\ cards' = n
             /\ card_i' = 1
    /\ UNCHANGED <<current_url, marker, page_type, probes, exc, profile,
                   profiles, page_source, clicks, extracted, args, returned, scan,
                   store_vars, bulk_vars, dom, run_vars>>

\* one iteration of `for button in contact_buttons[:2]`: click, wait, read
\* the markup, add its e-mails, try to close the modal.  An exception from
\* the click or the read skips the rest of the iteration; one from closing
\* is swallowed (close_clicked: the close button was found and clicked).
SNModal ==
    /\ pc = "sn_modal"
    /\ card_i <= min2(cards, max_contact_buttons)
    /\ \/ /\ \E failed \in {"click", "read"} : clicks' = clicks + 1
          /\ UNCHANGED profile
       \/ \E m \in ModalMarkups, close_clicked \in BOOLEAN :
            /\ profile' = scan_modal(profile, m)
            /\ clicks' = clicks + 1 + (IF close_clicked THEN 1 ELSE 0)
    /\ card_i' = card_i + 1
    /\ UNCHANGED <<pc, current_url, marker, page_type, probes, exc, profiles,
                   page_source, cards, extracted, args, returned, scan,
                   store_vars, bulk_vars, dom, run_vars>>

\* the loop over the buttons is over
SNModalsDone ==
    /\ pc = "sn_modal"
    /\ card_i > min2(cards, max_contact_buttons)
    /\ pc' = "sn_about"
    /\ cards' = 0
    /\ card_i' = 0
    /\ UNCHANGED <<current_url, marker, page_type, probes, exc, profile,
                   profiles, page_source, clicks, extracted, args, returned, scan,
                   store_vars, bulk_vars, dom, run_vars>>

\* _extract_contact_info: find the "see contact info" link, click it, read
\* the markup, extend the three lists, try to close the modal.
\* NoSuchElementException is caught by the inner handler, anything else by
\* the outer one; either way the function returns.
AuthContact ==
    /\ pc = "auth_contact"
    /\ \/ /\ \E failed \in {"no_button", "lookup"} : UNCHANGED clicks
          /\ UNCHANGED <<profile, page_source, scan>>
       \/ /\ \E failed \in {"click", "read"} : clicks' = clicks + 1
          /\ UNCHANGED <<profile, page_source, scan>>
       \/ \E m \in Markups, close_clicked \in BOOLEAN :
            /\ page_source' = m
            /\ scan' = "contact"
            /\ profile' = scan_contact_modal(profile, m)
            /\ clicks' = clicks + 1 + (IF close_clicked THEN 1 ELSE 0)
    /\ pc' = "reg_finish"
    /\ extracted' = extracted + 1
    /\ UNCHANGED <<current_url, marker, page_type, probes, exc, profiles,
                   cards, card_i, args, returned,
                   store_vars, bulk_vars, dom, run_vars>>

\* Specification SpecContact: the two contact flows on a fresh record
InitContact ==
    /\ \/ /\ pc = "sn_contact"
          /\ current_url = LeadPageUrl
          /\ page_type = "sales_navigator_profile"
          /\ marker = "unprobed"
          /\ profile = [LinkedInProfile(DefaultArgs) EXCEPT
                           !.profile_type = "sales_navigator",
                           !.linkedin_url = LeadPageUrl]
       \/ /\ pc = "auth_contact"
          /\ current_url = InPageUrl
          /\ page_type = "authenticated_profile"
          /\ marker = "present"
          /\ profile = [LinkedInProfile(DefaultArgs) EXCEPT
                           !.profile_type = "authenticated_profile",
                           !.linkedin_url = InPageUrl]
    /\ probes = 0
    /\ exc = "none"
    /\ args = DefaultArgs
    /\ profiles = <<>>
    /\ page_source = <<>>
    /\ cards = 0
    /\ card_i = 0
    /\ clicks = 0
    /\ extracted = 0
    /\ returned = "nothing"
    /\ scan = "none"
    /\ StoreIdle
    /\ dom = NoDom
    /\ RunIdle
    /\ BulkIdle

NextContact == SNScanBase \/ SNFindButtons \/ SNModal \/ SNModalsDone \/ AuthContact

SpecContact == InitContact /\ [][NextContact]_vars


---------------------------------------------------------------------------
(* The contact-reveal interaction, statement by statement: the button loop *)
(* of _extract_sales_navigator_contact_info (scan = "modal") and the one   *)
(* interaction of _extract_contact_info (scan = "contact").                *)
(* dom.step is the position inside the interaction, dom.before the record  *)
(* as it was when the trigger was clicked, dom.failed the step of the      *)
(* interaction that raised ("none" when none did).                         *)

Interaction(step, before, failed) ==
    [kind |-> "modal", step |-> step, before |-> before, failed |-> failed]

\* triggers activated per flow: contact_buttons[:2], one contact_button
trigger_limit(kind, found) ==
    IF kind = "modal" THEN min2(found, max_contact_buttons) ELSE min2(found, 1)

\* the pattern scan of the interaction
scan_interaction(kind, p, markup) ==
    IF kind = "modal" THEN scan_modal(p, markup) ELSE scan_contact_modal(p, markup)

\* contact_buttons = find_elements(...)   /   contact_button = find_element(...)
\* n: the number of triggers found; -1: the lookup raised (caught, logged)
ModalFind ==
    /\ pc = "modal_find"
    /\ \E n \in (-1)..MaxButtons :
        /\ scan = "contact" => n <= 1
        /\ cards' = n
        /\ card_i' = 1
        /\ pc' = IF n = -1 THEN "modal_done" ELSE "modal"
    /\ UNCHANGED <<current_url, marker, page_type, probes, exc, profile,
                   profiles, page_source, clicks, extracted, args, returned,
                   scan, store_vars, bulk_vars, dom, run_vars>>

\* button.click(): on an exception the rest of the interaction is skipped
ModalTrigger ==
    /\ pc = "modal"
    /\ dom.step = "closed"
    /\ card_i <= trigger_limit(scan, cards)
    /\ \E click \in ClickStates :
        IF click = "ok"
        THEN /\ dom' = Interaction("triggered", profile, "none")
             /\ UNCHANGED card_i
        ELSE /\ dom' = Interaction("closed", profile, "click")
             /\ card_i' = card_i + 1
    /\ clicks' = clicks + 1
    /\ UNCHANGED <<pc, current_url, marker, page_type, probes, exc, profile,
                   profiles, page_source, cards, extracted, args, returned,
                   scan, store_vars, bulk_vars, run_vars>>

\* time.sleep(1) / time.sleep(2)
ModalWait ==
    /\ pc = "modal"
    /\ dom.step = "triggered"
    /\ dom' = [dom EXCEPT !.step = "rendered"]
    /\ UNCHANGED <<pc, current_url, marker, page_type, probes, exc, profile,
                   profiles, page_source, cards, card_i, clicks, extracted,
                   args, returned, scan, store_vars, bulk_vars, run_vars>>

\* modal_content = self.driver.page_source and the pattern scan over it;
\* a raising read skips the rest of the interaction, the close included
ModalScan ==
    /\ pc = "modal"
    /\ dom.step = "rendered"
    /\ \E rd \in ReadStates, m \in ModalMarkups :
        IF rd = "error"
        THEN /\ dom' = [dom EXCEPT !.step = "closed", !.failed = "read"]
             /\ card_i' = card_i + 1
             /\ UNCHANGED <<profile, page_source>>
        ELSE /\ dom' = [dom EXCEPT !.step = "scanned"]
             /\ page_source' = m
             /\ profile' = scan_interaction(scan, profile, m)
             /\ UNCHANGED card_i
    /\ extracted' = extracted + 1
    /\ UNCHANGED <<pc, current_url, marker, page_type, probes, exc,
                   profiles, cards, clicks, args, returned,
                   scan, store_vars, bulk_vars, run_vars>>

\* mutant: a failing close ends the extraction with an exception
ModalClose_failure_aborts ==
    /\ pc = "modal"
    /\ dom.step = "scanned"
    /\ \E close_clicked \in BOOLEAN :
        /\ dom' = [dom EXCEPT !.step = "closed",
                       !.failed = IF close_clicked THEN "none" ELSE "close"]
        /\ clicks' = clicks + (IF close_clicked THEN 1 ELSE 0)
        /\ pc' = IF close_clicked THEN pc ELSE "raised"
        /\ exc' = IF close_clicked THEN exc ELSE "close"
    /\ card_i' = card_i + 1
    /\ UNCHANGED <<current_url, marker, page_type, probes, profile,
                   profiles, page_source, cards, extracted, args, returned,
                   scan, store_vars, bulk_vars, run_vars>>

\* try: find the close button, click it, sleep; except: pass
ModalClose ==
    /\ pc = "modal"
    /\ dom.step = "scanned"
    /\ \E close_clicked \in BOOLEAN :
        /\ dom' = [dom EXCEPT !.step = "closed",
                       !.failed = IF close_clicked THEN "none" ELSE "close"]
        /\ clicks' = clicks + (IF close_clicked THEN 1 ELSE 0)
    /\ card_i' = card_i + 1
    /\ UNCHANGED <<pc, current_url, marker, page_type, probes, exc, profile,
                   profiles, page_source, cards, extracted, args, returned,
                   scan, store_vars, bulk_vars, run_vars>>

\* no trigger is left: the function logs and returns
ModalLoopEnd ==
    /\ pc = "modal"
    /\ dom.step = "closed"
    /\ card_i > trigger_limit(scan, cards)
    /\ pc' = "modal_done"
    /\ UNCHANGED <<current_url, marker, page_type, probes, exc, profile,
                   profiles, page_source, cards, card_i, clicks, extracted,
                   args, returned, scan, store_vars, bulk_vars, dom, run_vars>>

\* Specification SpecModal: the interactions of both flows; the Sales
\* Navigator record has been through the base-page scan
InitModal ==
    /\ pc = "modal_find"
    /\ \/ /\ scan = "modal"
          /\ current_url = LeadPageUrl
          /\ page_type = "sales_navigator_profile"
          /\ \E m \in ModalMarkups :
                profile = scan_base([FreshRecord EXCEPT
                                        !.profile_type = "sales_navigator",
                                        !.linkedin_url = LeadPageUrl], m)
       \/ /\ scan = "contact"
          /\ current_url = InPageUrl
          /\ page_type = "authenticated_profile"
          /\ profile = [FreshRecord EXCEPT
                           !.profile_type = "authenticated_profile",
                           !.linkedin_url = InPageUrl]
    /\ dom = Interaction("closed", profile, "none")
    /\ RunIdle
    /\ marker = "unprobed"
    /\ probes = 0
    /\ exc = "none"
    /\ args = DefaultArgs
    /\ profiles = <<>>
    /\ page_source = <<>>
    /\ cards = 0
    /\ card_i = 0
    /\ clicks = 0
    /\ extracted = 0
    /\ returned = "nothing"
    /\ StoreIdle
    /\ BulkIdle

NextModal ==
    \/ ModalFind \/ ModalTrigger \/ ModalWait \/ ModalScan \/ ModalClose
    \/ ModalLoopEnd

SpecModal == InitModal /\ [][NextModal]_vars
---------------------------------------------------------------------------
(* Field matching on profile pages *)

\* Program constants of the sanity filters
role_min_len == 10        \* len(text) > 10
role_max_len == 200       \* len(text) < 200
about_min_len == 20       \* len(about_text) > 20
short_text_len == 100     \* len(text) < 100 (company part, location)

\* soup.select_one in a try with a bare except: a miss and an exception
\* both move on to the next selector
RECURSIVE FirstTextSoup(_, _)
FirstTextSoup(outs, i) ==
    IF i > Len(outs) THEN NoMatch
    ELSE IF outs[i].tag = "elem" /\ Strip(outs[i].text) # <<>>
         THEN Matched(Strip(outs[i].text))
         ELSE FirstTextSoup(outs, i + 1)

\* _extract_about_section: first selector whose text has more than 20
\* characters; an exception other than NoSuchElementException ends the
\* function (caught and logged)
RECURSIVE FirstAbout(_, _)
FirstAbout(outs, i) ==
    IF i > Len(outs) THEN NoMatch
    ELSE CASE outs[i].tag = "miss"  -> FirstAbout(outs, i + 1)
           [] outs[i].tag = "error" -> NoMatch
           [] OTHER -> IF Strip(outs[i].text) # <<>>
                          /\ Len(Strip(outs[i].text)) > about_min_len
                       THEN Matched(Strip(outs[i].text))
                       ELSE FirstAbout(outs, i + 1)

extract_about_section(p, outs) ==
    LET a == FirstAbout(outs, 1) IN
    IF a.found THEN [p EXCEPT !.about = a.value] ELSE p

\* a link lookup: the element's href, a miss, or an exception
Link(h) == [tag |-> "elem", href |-> h]
NoLink == [tag |-> "miss", href |-> EmptyUrl]
LinkErr == [tag |-> "error", href |-> EmptyUrl]

\* _extract_linkedin_profile_url: first link whose href contains '/in/'
RECURSIVE FirstProfileLink(_, _)
FirstProfileLink(outs, i) ==
    IF i > Len(outs) THEN [found |-> FALSE, href |-> EmptyUrl]
    ELSE CASE outs[i].tag = "miss"  -> FirstProfileLink(outs, i + 1)
           [] outs[i].tag = "error" -> [found |-> FALSE, href |-> EmptyUrl]
           [] OTHER -> IF outs[i].href # EmptyUrl /\ HasSeg(outs[i].href, "in")
                       THEN [found |-> TRUE, href |-> outs[i].href]
                       ELSE FirstProfileLink(outs, i + 1)

extract_linkedin_profile_url(p, outs) ==
    LET l == FirstProfileLink(outs, 1) IN
    IF l.found THEN [p EXCEPT !.linkedin_url = l.href] ELSE p

\* sample texts of profile pages
RoleGood == <<"E", "n", "g", "i", "n", "e", "e", "r", " ", "a", "t", " ", "A", "c", "m", "e">>
RoleShort == <<"C", "E", "O">>
RoleBoiler == <<"C", "o", "n", "n", "e", "c", "t", " ", "w", "i", "t", "h", " ", "A", "n", "n">>
AboutLong == [i \in 1..(about_min_len + 1) |-> "a"]
AboutShort == [i \in 1..about_min_len |-> "a"]
AtWord == <<" ", "a", "t", " ">>
Boilerplate == {<<"c", "o", "n", "t", "a", "c", "t", " ", "i", "n", "f", "o">>, <<"m", "e", "s", "s", "a", "g", "e">>, <<"c", "o", "n", "n", "e", "c", "t">>, <<"f", "o", "l", "l", "o", "w">>}

\* the name / role / company / location part of
\* extract_sales_navigator_profile: four select_one loops over the soup
sn_fields(p, page) ==
    LET n == FirstTextSoup(page.name, 1)
        r == FirstTextSoup(page.role, 1)
        c == FirstTextSoup(page.company, 1)
        l == FirstTextSoup(page.location, 1)
    IN  [p EXCEPT
           !.full_name = IF n.found THEN n.value ELSE @,
           !.role = IF r.found THEN r.value ELSE @,
           !.company = IF c.found THEN c.value ELSE @,
           !.geography = IF l.found THEN l.value ELSE @]

SNPage(n, r, c, l) == [name |-> n, role |-> r, company |-> c, location |-> l]

\* representative Sales Navigator lead pages
SNPages ==
    { SNPage(<<Elem(Ann), Elem(Bob), Miss, Miss>>, <<Elem(SomeRole), Miss, Miss>>,
             <<Elem(SomeCompany), Miss>>, <<Elem(SomePlace), Miss>>),
      SNPage(<<Miss, Err, Elem(Blank), Elem(AnnPadded)>>, <<Miss, Miss, Elem(SomeRole)>>,
             <<Err, Elem(SomeCompany)>>, <<Miss, Miss>>),
      SNPage(<<Miss, Elem(Blank), Err, Miss>>, <<Elem(SomeRole), Miss, Miss>>,
             <<Miss, Miss>>, <<Miss, Elem(SomePlace)>>),
      SNPage(<<Miss, Miss, Miss, Miss>>, <<Miss, Miss, Miss>>,
             <<Miss, Miss>>, <<Miss, Miss>>) }

AboutOutcomes ==
    { <<Elem(AboutLong), Miss, Miss, Miss>>,
      <<Elem(AboutShort), Miss, Err, Elem(AboutLong)>>,
      <<Miss, Miss, Miss, Miss>> }

LinkOutcomes ==
    { <<Link(InPageUrl), NoLink, NoLink>>,
      <<Link(LeadPageUrl), LinkErr, Link(InPageUrl)>>,
      <<NoLink, NoLink, NoLink>> }

\* mutant: the length limits are inclusive
role_accepts_inclusive(text) ==
    /\ text # <<>>
    /\ \A b \in Boilerplate : ~Contains(Lower(text), b)
    /\ Len(text) >= role_min_len
    /\ Len(text) <= role_max_len

\* text and not any(skip in text.lower() for skip in [...])
\*      and len(text) > 10 and len(text) < 200
role_accepts(text) ==
    /\ text # <<>>
    /\ \A b \in Boilerplate : ~Contains(Lower(text), b)
    /\ Len(text) > role_min_len
    /\ Len(text) < role_max_len

\* the candidates of one role selector, in order
RECURSIVE FirstRoleIn(_, _)
FirstRoleIn(elems, j) ==
    IF j > Len(elems) THEN NoMatch
    ELSE IF elems[j].tag = "error" THEN MatchRaised
    ELSE IF role_accepts(Strip(elems[j].text)) THEN Matched(Strip(elems[j].text))
    ELSE FirstRoleIn(elems, j + 1)

\* the role selectors, in order, until a candidate is accepted
RECURSIVE FirstRole(_, _)
FirstRole(sels, i) ==
    IF i > Len(sels) THEN NoMatch
    ELSE LET r == FirstRoleIn(sels[i], 1) IN
         IF r.found \/ r.raised THEN r ELSE FirstRole(sels, i + 1)

\* text.split(" at ")[-1]
AfterLastAt(text) ==
    LET at == {i \in 1..(Len(text) - Len(AtWord) + 1) :
                  SubSeq(text, i, i + Len(AtWord) - 1) = AtWord}
        last == CHOOSE i \in at : \A j \in at : j <= i
    IN  SubSeq(text, last + Len(AtWord), Len(text))

\* the ':contains' selector: the first soup element with " at " in its
\* text decides; the inner break leaves only the loop over the elements
RECURSIVE CompanyFromSoup(_, _, _)
CompanyFromSoup(cur, texts, j) ==
    IF j > Len(texts) THEN cur
    ELSE IF Contains(Strip(texts[j]), AtWord)
         THEN IF AfterLastAt(Strip(texts[j])) # <<>>
                 /\ Len(AfterLastAt(Strip(texts[j]))) < short_text_len
              THEN AfterLastAt(Strip(texts[j]))
              ELSE CompanyFromSoup(cur, texts, j + 1)
         ELSE CompanyFromSoup(cur, texts, j + 1)

\* the two find_element company selectors (bare except: continue)
RECURSIVE CompanyFromElems(_, _, _)
CompanyFromElems(cur, outs, i) ==
    IF i > Len(outs) THEN cur
    ELSE IF outs[i].tag = "elem" /\ Strip(outs[i].text) # <<>>
         THEN Strip(outs[i].text)
         ELSE CompanyFromElems(cur, outs, i + 1)

\* the location selectors: first text shorter than 100 characters
RECURSIVE FirstLocation(_, _)
FirstLocation(outs, i) ==
    IF i > Len(outs) THEN NoMatch
    ELSE CASE outs[i].tag = "miss"  -> FirstLocation(outs, i + 1)
           [] outs[i].tag = "error" -> MatchRaised
           [] OTHER -> IF Strip(outs[i].text) # <<>>
                          /\ Len(Strip(outs[i].text)) < short_text_len
                       THEN Matched(Strip(outs[i].text))
                       ELSE FirstLocation(outs, i + 1)

\* the name / role / company / location / about part of
\* extract_regular_profile.  raised: an exception reached the function's
\* handler; the fields set before it stay set.
regular_fields(p, page) ==
    LET n == FirstText(page.name, 1)
        p1 == IF n.found THEN [p EXCEPT !.full_name = n.value] ELSE p
        r == FirstRole(page.role, 1)
        p2 == IF r.found THEN [p1 EXCEPT !.role = r.value] ELSE p1
        viaSoup == IF page.soup_ok
                   THEN CompanyFromSoup(p2.company, page.soup_texts, 1)
                   ELSE p2.company
        p3 == [p2 EXCEPT !.company = CompanyFromElems(viaSoup, page.company, 1)]
        l == FirstLocation(page.location, 1)
        p4 == IF l.found THEN [p3 EXCEPT !.location = l.value] ELSE p3
    IN  IF n.raised THEN [profile |-> p, raised |-> TRUE]
        ELSE IF r.raised THEN [profile |-> p1, raised |-> TRUE]
        ELSE IF l.raised THEN [profile |-> p3, raised |-> TRUE]
        ELSE [profile |-> extract_about_section(p4, page.about), raised |-> FALSE]

RegPage(n, r, ok, st, c, l, a) ==
    [name |-> n, role |-> r, soup_ok |-> ok, soup_texts |-> st,
     company |-> c, location |-> l, about |-> a]

NoRoles == <<<<>>, <<>>, <<>>, <<>>, <<>>, <<>>>>

\* representative profile pages
RegPages ==
    { RegPage(<<Elem(Ann), Miss, Miss, Miss, Miss>>,
              <<<<Elem(RoleGood)>>, <<>>, <<>>, <<>>, <<>>, <<>>>>,
              TRUE, <<RoleGood>>, <<Miss, Miss>>,
              <<Elem(SomePlace), Miss, Miss>>,
              <<Elem(AboutLong), Miss, Miss, Miss>>),
      RegPage(<<Miss, Elem(Blank), Miss, Elem(AnnPadded), Elem(Bob)>>,
              <<<<Elem(RoleBoiler), Elem(RoleShort)>>, <<Elem(RoleGood)>>,
                <<Err>>, <<>>, <<>>, <<>>>>,
              FALSE, <<>>, <<Err, Elem(SomeCompany)>>,
              <<Elem(Blank), Miss, Elem(SomePlace)>>,
              <<Miss, Err, Miss, Elem(AboutLong)>>),
      RegPage(<<Miss, Miss, Miss, Miss, Miss>>, NoRoles,
              TRUE, <<SomeRole>>, <<Miss, Miss>>, <<Miss, Miss, Miss>>,
              <<Miss, Miss, Miss, Miss>>),
      RegPage(<<Miss, Err, Elem(Ann), Miss, Miss>>, NoRoles,
              TRUE, <<>>, <<Miss, Miss>>, <<Miss, Miss, Miss>>,
              <<Miss, Miss, Miss, Miss>>),
      RegPage(<<Elem(Ann), Miss, Miss, Miss, Miss>>,
              <<<<Elem(RoleShort), Err>>, <<Elem(RoleGood)>>, <<>>, <<>>, <<>>, <<>>>>,
              TRUE, <<>>, <<Miss, Miss>>, <<Miss, Miss, Miss>>,
              <<Miss, Miss, Miss, Miss>>),
      RegPage(<<Elem(Ann), Miss, Miss, Miss, Miss>>, NoRoles,
              TRUE, <<RoleGood>>, <<Elem(SomeCompany), Miss>>, <<Miss, Err, Miss>>,
              <<Elem(AboutLong), Miss, Miss, Miss>>) }

---------------------------------------------------------------------------
(* extract_profile and the two single-profile flows *)

\* mutant: company pages are handed to the regular-profile flow
dispatch_company_as_profile(t) ==
    CASE t = "sales_navigator_profile" -> "sn_start"
      [] t = "sales_navigator_search"  -> "search_start"
      [] t \in {"authenticated_profile", "public_profile", "company_page"}
                                       -> "reg_start"
      [] OTHER                         -> "unsupported"

\* the if/elif chain of extract_profile: where each page type is sent
dispatch(t) ==
    CASE t = "sales_navigator_profile" -> "sn_start"
      [] t = "sales_navigator_search"  -> "search_start"
      [] t \in {"authenticated_profile", "public_profile"} -> "reg_start"
      [] OTHER                         -> "unsupported"

\* if url: self.driver.get(url)   (nav "skip": no url was given)
Navigate ==
    /\ pc = "start"
    /\ \E nav \in {"ok", "skip", "error"} :
        IF nav = "error"
        THEN /\ exc' = "navigate"
             /\ pc' = "raised"
        ELSE /\ pc' = "classify"
             /\ UNCHANGED exc
    /\ UNCHANGED <<current_url, marker, page_type, probes, profile, profiles,
                   page_source, cards, card_i, clicks, extracted, args,
                   returned, scan,
                   store_vars, bulk_vars, dom, run_vars>>

\* page_type = self.detect_page_type(), outside any try block
\* (m: the state of the marker element, recorded when it is probed)
Classify ==
    /\ pc = "classify"
    /\ \E rd \in ReadStates, m \in MarkerStates :
        LET r == detect_page_type(rd, current_url, m) IN
        /\ probes' = probes + r.probes
        /\ marker' = IF r.probes > 0 THEN m ELSE marker
        /\ IF r.raised # "none"
           THEN /\ exc' = r.raised
                /\ pc' = "raised"
                /\ UNCHANGED page_type
           ELSE /\ page_type' = r.ret
                /\ pc' = "dispatch"
                /\ UNCHANGED exc
    /\ UNCHANGED <<current_url, profile, profiles, page_source,
                   cards, card_i, clicks, extracted, args, returned, scan,
                   store_vars, bulk_vars, dom, run_vars>>

\* one of the three supported branches is taken
Dispatch ==
    /\ pc = "dispatch"
    /\ dispatch(page_type) # "unsupported"
    /\ pc' = dispatch(page_type)
    /\ UNCHANGED <<current_url, marker, page_type, probes, exc, profile,
                   profiles, page_source, cards, card_i, clicks, extracted,
                   args, returned, scan,
                   store_vars, bulk_vars, dom, run_vars>>

\* else: logger.error("Unsupported page type"); return LinkedInProfile()
Unsupported ==
    /\ pc = "dispatch"
    /\ dispatch(page_type) = "unsupported"
    /\ profile' = LinkedInProfile(DefaultArgs)
    /\ returned' = "record"
    /\ pc' = "done"
    /\ UNCHANGED <<current_url, marker, page_type, probes, exc, profiles,
                   page_source, cards, card_i, clicks, extracted, args, scan,
                   store_vars, bulk_vars, dom, run_vars>>

\* mutant: the Sales Navigator flow stores the detected page type
SNStart_stores_page_type ==
    /\ pc = "sn_start"
    /\ \E rd \in ReadStates :
        IF rd = "error"
        THEN /\ exc' = "current_url"
             /\ pc' = "raised"
             /\ UNCHANGED profile
        ELSE /\ profile' = [LinkedInProfile(DefaultArgs) EXCEPT
                               !.profile_type = page_type,
                               !.linkedin_url = current_url]
             /\ pc' = "sn_fields"
             /\ UNCHANGED exc
    /\ UNCHANGED <<current_url, marker, page_type, probes, profiles,
                   page_source, cards, card_i, clicks, extracted, args,
                   returned, scan,
                   store_vars, bulk_vars, dom, run_vars>>

\* extract_sales_navigator_profile, before its try block:
\* profile = LinkedInProfile(); profile.profile_type = "sales_navigator";
\* profile.linkedin_url = self.driver.current_url
SNStart ==
    /\ pc = "sn_start"
    /\ \E rd \in ReadStates :
        IF rd = "error"
        THEN /\ exc' = "current_url"
             /\ pc' = "raised"
             /\ UNCHANGED profile
        ELSE /\ profile' = [LinkedInProfile(DefaultArgs) EXCEPT
                               !.profile_type = "sales_navigator",
                               !.linkedin_url = current_url]
             /\ pc' = "sn_fields"
             /\ UNCHANGED exc
    /\ UNCHANGED <<current_url, marker, page_type, probes, profiles,
                   page_source, cards, card_i, clicks, extracted, args,
                   returned, scan,
                   store_vars, bulk_vars, dom, run_vars>>

\* read the markup, parse it, match name, role, company and geography.
\* A failing read reaches the function's handler: success = False, return.
SNFields ==
    /\ pc = "sn_fields"
    /\ \E rd \in ReadStates, page \in SNPages :
        IF rd = "error"
        THEN /\ profile' = [profile EXCEPT !.extraction_success = FALSE]
             /\ pc' = "done"
             /\ returned' = "record"
        ELSE /\ profile' = sn_fields(profile, page)
             /\ pc' = "sn_contact"
             /\ UNCHANGED returned
    /\ extracted' = extracted + 1
    /\ UNCHANGED <<current_url, marker, page_type, probes, exc, profiles,
                   page_source, cards, card_i, clicks, args, scan,
                   store_vars, bulk_vars, dom, run_vars>>

\* _extract_about_section, _extract_linkedin_profile_url,
\* profile.extraction_success = bool(profile.full_name); return profile
SNFinish ==
    /\ pc = "sn_about"
    /\ \E a \in AboutOutcomes, l \in LinkOutcomes :
        LET p == extract_linkedin_profile_url(extract_about_section(profile, a), l)
        IN  profile' = [p EXCEPT !.extraction_success = (p.full_name # <<>>)]
    /\ pc' = "done"
    /\ returned' = "record"
    /\ UNCHANGED <<current_url, marker, page_type, probes, exc, profiles,
                   page_source, cards, card_i, clicks, extracted, args, scan,
                   store_vars, bulk_vars, dom, run_vars>>

\* extract_regular_profile, before its try block:
\* profile = LinkedInProfile(); profile.linkedin_url = self.driver.current_url
RegStart ==
    /\ pc = "reg_start"
    /\ \E rd \in ReadStates :
        IF rd = "error"
        THEN /\ exc' = "current_url"
             /\ pc' = "raised"
             /\ UNCHANGED profile
        ELSE /\ profile' = [LinkedInProfile(DefaultArgs) EXCEPT
                               !.linkedin_url = current_url]
             /\ pc' = "reg_detect"
             /\ UNCHANGED exc
    /\ UNCHANGED <<current_url, marker, page_type, probes, profiles,
                   page_source, cards, card_i, clicks, extracted, args,
                   returned, scan,
                   store_vars, bulk_vars, dom, run_vars>>

\* profile.profile_type = self.detect_page_type(), inside the try block;
\* the DOM is probed again (m: its state now)
RegDetect ==
    /\ pc = "reg_detect"
    /\ \E rd \in ReadStates, m \in MarkerStates :
        LET r == detect_page_type(rd, current_url, m) IN
        /\ marker' = IF r.probes > 0 THEN m ELSE marker
        /\ probes' = probes + r.probes
        /\ IF r.raised # "none"
           THEN /\ profile' = [profile EXCEPT !.extraction_success = FALSE]
                /\ pc' = "done"
                /\ returned' = "record"
           ELSE /\ profile' = [profile EXCEPT !.profile_type = r.ret]
                /\ pc' = "reg_fields"
                /\ UNCHANGED returned
    /\ UNCHANGED <<current_url, page_type, exc, profiles, page_source,
                   cards, card_i, clicks, extracted, args, scan,
                   store_vars, bulk_vars, dom, run_vars>>

\* mutant: the contact modal is opened for every regular profile
wants_contact_info_always(t) == t \in {"authenticated_profile", "public_profile"}

\* if profile.profile_type == "authenticated_profile":
wants_contact_info(t) == t = "authenticated_profile"

\* mutant: the handler of extract_regular_profile leaves the flag to the name
RegFields_handler_flags_by_name ==
    /\ pc = "reg_fields"
    /\ \E page \in RegPages :
        LET r == regular_fields(profile, page) IN
        IF r.raised
        THEN /\ profile' = [r.profile EXCEPT
                               !.extraction_success = (r.profile.full_name # <<>>)]
             /\ pc' = "done"
             /\ returned' = "record"
        ELSE /\ profile' = r.profile
             /\ pc' = IF wants_contact_info(r.profile.profile_type)
                      THEN "auth_contact" ELSE "reg_finish"
             /\ UNCHANGED returned
    /\ extracted' = extracted + 1
    /\ UNCHANGED <<current_url, marker, page_type, probes, exc, profiles,
                   page_source, cards, card_i, clicks, args, scan,
                   store_vars, bulk_vars, dom, run_vars>>

\* name, role, company, location and about of extract_regular_profile
RegFields ==
    /\ pc = "reg_fields"
    /\ \E page \in RegPages :
        LET r == regular_fields(profile, page) IN
        IF r.raised
        THEN /\ profile' = [r.profile EXCEPT !.extraction_success = FALSE]
             /\ pc' = "done"
             /\ returned' = "record"
        ELSE /\ profile' = r.profile
             /\ pc' = IF wants_contact_info(r.profile.profile_type)
                      THEN "auth_contact" ELSE "reg_finish"
             /\ UNCHANGED returned
    /\ extracted' = extracted + 1
    /\ UNCHANGED <<current_url, marker, page_type, probes, exc, profiles,
                   page_source, cards, card_i, clicks, args, scan,
                   store_vars, bulk_vars, dom, run_vars>>

\* profile.extraction_success = bool(profile.full_name); return profile
RegFinish ==
    /\ pc = "reg_finish"
    /\ profile' = [profile EXCEPT !.extraction_success = (profile.full_name # <<>>)]
    /\ pc' = "done"
    /\ returned' = "record"
    /\ UNCHANGED <<current_url, marker, page_type, probes, exc, profiles,
                   page_source, cards, card_i, clicks, extracted, args, scan,
                   store_vars, bulk_vars, dom, run_vars>>

\* the pages extract_profile is run on
SampleUrls == {LeadPageUrl, SearchUrl, InPageUrl, CompanyUrl, OtherUrl}

Init ==
    /\ pc = "start"
    /\ current_url \in SampleUrls
    /\ marker = "unprobed"
    /\ page_type = "none"
    /\ probes = 0
    /\ exc = "none"
    /\ args = DefaultArgs
    /\ profile = DefaultArgs
    /\ profiles = <<>>
    /\ page_source = <<>>
    /\ cards = 0
    /\ card_i = 0
    /\ clicks = 0
    /\ extracted = 0
    /\ returned = "nothing"
    /\ scan = "none"
    /\ StoreIdle
    /\ dom = NoDom
    /\ RunIdle
    /\ BulkIdle

Next ==
    \/ Navigate \/ Classify \/ Dispatch \/ Unsupported
    \/ SNStart \/ SNFields \/ SNScanBase \/ SNFindButtons \/ SNModal
    \/ SNModalsDone \/ SNFinish
    \/ RegStart \/ RegDetect \/ RegFields \/ AuthContact \/ RegFinish
    \/ FindCards \/ ProcessCard \/ FinishSearch

Spec == Init /\ [][Next]_vars


---------------------------------------------------------------------------
(* Field matching as a function of the page: the locator loops of the two  *)
(* single-profile flows applied to a page drawn from a set of pages.       *)

\* role candidates around the limits of the length filter
RoleLen(n) == [i \in 1..n |-> "r"]
RoleAtMin == RoleLen(role_min_len)
RoleOverMin == RoleLen(role_min_len + 1)
RoleUnderMax == RoleLen(role_max_len - 1)
RoleAtMax == RoleLen(role_max_len)
RoleBoilerCased == <<"S", "e", "n", "d", " ", "a", " ", "M", "E", "S", "S", "A", "G", "E">>
RoleOther == <<"D", "i", "r", "e", "c", "t", "o", "r", " ", "a", "t", " ", "B", "i", "z">>

\* what the four name locators of the Sales Navigator flow can yield
SNNameOuts ==
    { <<Elem(Ann), Elem(Bob), Miss, Miss>>,
      <<Miss, Err, Elem(Blank), Elem(AnnPadded)>>,
      <<Elem(Blank), Elem(Bob), Elem(Ann), Miss>>,
      <<Miss, Miss, Miss, Miss>> }
SNRoleOuts ==
    { <<Elem(SomeRole), Elem(RoleShort), Miss>>,
      <<Miss, Elem(Blank), Elem(SomeRole)>>,
      <<Err, Elem(RoleShort), Elem(SomeRole)>>,
      <<Miss, Miss, Miss>> }
PairOuts ==
    { <<Elem(SomeCompany), Elem(SomePlace)>>,
      <<Err, Elem(SomeCompany)>>,
      <<Elem(Blank), Elem(AnnPadded)>>,
      <<Miss, Miss>> }

SNFieldPages ==
    { SNPage(n, r, c, l) :
        n \in SNNameOuts, r \in SNRoleOuts, c \in PairOuts, l \in PairOuts }

\* what the locators of the regular flow can yield
RegNameOuts ==
    { <<Elem(Ann), Elem(Bob), Miss, Miss, Miss>>,
      <<Miss, Elem(Blank), Miss, Elem(AnnPadded), Elem(Bob)>>,
      <<Miss, Err, Elem(Ann), Miss, Miss>>,
      <<Miss, Miss, Miss, Miss, Miss>> }
RegRoleOuts ==
    { <<<<Elem(RoleGood)>>, <<Elem(RoleOther)>>, <<>>, <<>>, <<>>, <<>>>>,
      <<<<Elem(RoleBoiler), Elem(RoleShort)>>, <<Elem(RoleGood)>>, <<Err>>,
        <<>>, <<>>, <<>>>>,
      <<<<Elem(RoleAtMin)>>, <<>>, <<Elem(RoleGood)>>, <<>>, <<>>, <<>>>>,
      <<<<Elem(RoleAtMax), Elem(RoleOverMin)>>, <<>>, <<>>, <<>>, <<>>, <<>>>>,
      <<<<Elem(RoleUnderMax)>>, <<Elem(RoleGood)>>, <<>>, <<>>, <<>>, <<>>>>,
      <<<<Elem(RoleBoilerCased)>>, <<Elem(Blank)>>, <<>>, <<>>, <<>>,
        <<Elem(RoleShort)>>>>,
      <<<<Elem(RoleShort), Err>>, <<Elem(RoleGood)>>, <<>>, <<>>, <<>>, <<>>>>,
      NoRoles }
RegSoupOuts ==
    { [ok |-> TRUE, texts |-> <<SomeRole, RoleGood, RoleOther>>],
      [ok |-> TRUE, texts |-> <<SomeRole>>],
      [ok |-> FALSE, texts |-> <<>>] }
RegLocationOuts ==
    { <<Elem(SomePlace), Elem(SomeCompany), Miss>>,
      <<Elem(Blank), Miss, Elem(SomePlace)>>,
      <<Miss, Err, Elem(SomePlace)>>,
      <<Miss, Miss, Miss>> }

RegFieldPages ==
    { RegPage(n, r, s.ok, s.texts, c, l, <<Miss, Miss, Miss, Miss>>) :
        n \in RegNameOuts, r \in RegRoleOuts, s \in RegSoupOuts,
        c \in PairOuts, l \in RegLocationOuts }

\* the four select_one loops of extract_sales_navigator_profile
MatchSNFields ==
    /\ pc = "match_fields"
    /\ dom.kind = "sales_navigator"
    /\ profile' = sn_fields(profile, dom.page)
    /\ pc' = "fields_matched"
    /\ extracted' = extracted + 1
    /\ UNCHANGED <<current_url, marker, page_type, probes, exc, profiles,
                   page_source, cards, card_i, clicks, args, returned, scan,
                   store_vars, bulk_vars, dom, run_vars>>

\* the locator loops of extract_regular_profile; an exception that reaches
\* the function's handler ends the matching
MatchRegularFields ==
    /\ pc = "match_fields"
    /\ dom.kind = "regular"
    /\ LET r == regular_fields(profile, dom.page) IN
        /\ profile' = r.profile
        /\ pc' = IF r.raised THEN "fields_failed" ELSE "fields_matched"
    /\ extracted' = extracted + 1
    /\ UNCHANGED <<current_url, marker, page_type, probes, exc, profiles,
                   page_source, cards, card_i, clicks, args, returned, scan,
                   store_vars, bulk_vars, dom, run_vars>>

\* Specification SpecFields: every page, matched once
InitFields ==
    /\ pc = "match_fields"
    /\ \/ /\ dom \in {[kind |-> "sales_navigator", page |-> pg] :
                        pg \in SNFieldPages}
          /\ profile = [FreshRecord EXCEPT !.profile_type = "sales_navigator"]
       \/ /\ dom \in {[kind |-> "regular", page |-> pg] : pg \in RegFieldPages}
          /\ profile \in {[FreshRecord EXCEPT !.profile_type = t] :
                            t \in {"authenticated_profile", "public_profile"}}
    /\ args = DefaultArgs
    /\ current_url = EmptyUrl
    /\ marker = "unprobed"
    /\ page_type = "none"
    /\ probes = 0
    /\ exc = "none"
    /\ profiles = <<>>
    /\ page_source = <<>>
    /\ cards = 0
    /\ card_i = 0
    /\ clicks = 0
    /\ extracted = 0
    /\ returned = "nothing"
    /\ scan = "none"
    /\ StoreIdle
    /\ BulkIdle
    /\ RunIdle

NextFields == MatchSNFields \/ MatchRegularFields

SpecFields == InitFields /\ [][NextFields]_vars

---------------------------------------------------------------------------
(* database_storage.py: the profile store.  The two tables hold committed  *)
(* rows only: a call that raises is rolled back by get_db_connection and   *)
(* leaves them as they were (the SERIAL sequence is not rolled back).      *)

\* the columns written from the record by _insert_profile / _update_profile
\* (company_linkedin_url, headline, date_added and connections_count are
\* not part of the model's record)
row_values(p) ==
    [full_name |-> p.full_name, linkedin_url |-> p.linkedin_url,
     role |-> p.role, company |-> p.company, geography |-> p.geography,
     location |-> p.location, about |-> p.about,
     profile_type |-> p.profile_type,
     extraction_success |-> p.extraction_success,
     extraction_timestamp |-> p.extraction_timestamp,
     emails_count |-> Len(p.emails), phones_count |-> Len(p.phones),
     websites_count |-> Len(p.websites),
     social_links_count |-> Len(p.social_links)]

\* SELECT ... FROM linkedin_profiles WHERE linkedin_url = %s
select_by_url(rs, url) == {r \in rs : r.data.linkedin_url = url}

\* INSERT INTO linkedin_profiles ... RETURNING id
\* (created_at and updated_at both default to CURRENT_TIMESTAMP)
insert_profile(rs, id, p, t) ==
    rs \cup {[id |-> id, data |-> row_values(p),
              created_at |-> t, updated_at |-> t]}

\* mutant: the update leaves the company column as it was
update_profile_keeps_company(rs, id, p, t) ==
    { IF r.id = id
      THEN [r EXCEPT !.data = [row_values(p) EXCEPT
                                 !.linkedin_url = r.data.linkedin_url,
                                 !.company = r.data.company],
                     !.updated_at = t]
      ELSE r : r \in rs }

\* UPDATE linkedin_profiles SET <every column but linkedin_url>,
\* updated_at = CURRENT_TIMESTAMP WHERE id = %s
update_profile(rs, id, p, t) ==
    { IF r.id = id
      THEN [r EXCEPT !.data = [row_values(p) EXCEPT
                                 !.linkedin_url = r.data.linkedin_url],
                     !.updated_at = t]
      ELSE r : r \in rs }

Twitter == <<"t", "w", "i", "t", "t", "e", "r", ".", "c", "o", "m">>
Facebook == <<"f", "a", "c", "e", "b", "o", "o", "k", ".", "c", "o", "m">>
Instagram == <<"i", "n", "s", "t", "a", "g", "r", "a", "m", ".", "c", "o", "m">>
Github == <<"g", "i", "t", "h", "u", "b", ".", "c", "o", "m">>

\* the platform column of a social link
platform_of(social) ==
    CASE Contains(social, Twitter)   -> "twitter"
      [] Contains(social, Facebook)  -> "facebook"
      [] Contains(social, Instagram) -> "instagram"
      [] Contains(social, Github)    -> "github"
      [] OTHER                       -> "None"

\* the rows of one list of the record
contact_rows(id, type, list) ==
    { [profile_id |-> id, contact_type |-> type, contact_value |-> list[i],
       contact_platform |-> IF type = "social" THEN platform_of(list[i])
                            ELSE "None"] : i \in 1..Len(list) }

\* _save_contact_info: delete the profile's rows, insert the new ones
\* (UNIQUE(profile_id, contact_type, contact_value), ON CONFLICT DO NOTHING)
save_contact_info(cs, id, p) ==
    {c \in cs : c.profile_id # id}
        \cup contact_rows(id, "email", p.emails)
        \cup contact_rows(id, "phone", p.phones)
        \cup contact_rows(id, "website", p.websites)
        \cup contact_rows(id, "social", p.social_links)
        \cup contact_rows(id, "address", p.addresses)

\* where a save_profile call can fail: opening the connection, a write
\* statement, the commit
SaveFailures == {"none", "connect", "write", "commit"}

\* save_profile(profile) on database db = [rows, contacts, next_id] at
\* time t: the database after the call, the identifier returned (0 if it
\* raised) and whether it raised.
save_profile(db, p, t, fail) ==
    LET existing == select_by_url(db.rows, p.linkedin_url)
        inserts == existing = {} /\ fail # "connect"
        id == IF existing = {} THEN db.next_id
              ELSE (CHOOSE r \in existing : TRUE).id
        seq == IF inserts THEN db.next_id + 1 ELSE db.next_id
    IN  IF fail # "none"
        THEN [db |-> [db EXCEPT !.next_id = seq], ret |-> 0, raised |-> TRUE]
        ELSE [db |-> [rows |-> IF existing = {}
                               THEN insert_profile(db.rows, id, p, t)
                               ELSE update_profile(db.rows, id, p, t),
                      contacts |-> save_contact_info(db.contacts, id, p),
                      next_id |-> seq],
              ret |-> id, raised |-> FALSE]

\* get_profile_by_url: `dict(cursor.fetchone()) if cursor.fetchone() else
\* None` reads the cursor twice: the row tested is consumed by the test and
\* the row converted is the one after it.  dict(None) raises TypeError,
\* which the function's handler turns into None.  The set of values the
\* call can return (the cursor's row order is the database's choice).
get_profile_by_url(rs, url, connected) ==
    LET matching == select_by_url(rs, url)
        ReturnsNone == [none |-> TRUE, row |-> NoRow]
    IN  IF ~connected \/ matching = {}
        THEN {ReturnsNone}
        ELSE UNION { IF matching \ {first} = {}
                     THEN {ReturnsNone}
                     ELSE {[none |-> FALSE, row |-> second] :
                              second \in matching \ {first}}
                     : first \in matching }

\* the profiles handed to the store
StoreUrls == {InPageUrl, LeadPageUrl}
SaveProfiles ==
    { LinkedInProfile([DefaultArgs EXCEPT
         !.full_name = n,
         !.linkedin_url = u,
         !.company = IF filled THEN SomeCompany ELSE <<>>,
         !.emails = IF filled THEN <<SomeValue>> ELSE <<>>,
         !.none = ListFields \ {"emails"},
         !.extraction_success = TRUE])
      : n \in {Ann, Bob}, u \in StoreUrls, filled \in BOOLEAN }

\* profile_id = storage.save_profile(profile)
SaveProfile ==
    /\ pc = "store"
    /\ now < MaxSaves
    /\ \E p \in SaveProfiles, fail \in SaveFailures :
        LET r == save_profile([rows |-> rows, contacts |-> contacts,
                               next_id |-> next_id], p, now + 1, fail) IN
        /\ profile' = p
        /\ rows' = r.db.rows
        /\ contacts' = r.db.contacts
        /\ next_id' = r.db.next_id
        /\ db_ret' = r.ret
        /\ exc' = IF r.raised THEN "save_profile" ELSE "none"
        /\ saves' = IF r.raised THEN saves
                    ELSE Append(saves, [profile |-> p, id |-> r.ret])
    /\ now' = now + 1
    /\ UNCHANGED <<pc, current_url, marker, page_type, probes, profiles,
                   page_source, cards, card_i, clicks, extracted, args,
                   returned, scan, fetched, bulk_vars, dom, run_vars>>

\* retrieved = storage.get_profile_by_url(url)
GetProfileByUrl ==
    /\ pc = "store"
    /\ \E url \in StoreUrls, connected \in BOOLEAN :
        \E r \in get_profile_by_url(rows, url, connected) :
            fetched' = [called |-> TRUE, url |-> url, at |-> Len(saves),
                        none |-> r.none, row |-> r.row]
    /\ UNCHANGED <<pc, current_url, marker, page_type, probes, exc, profile,
                   profiles, page_source, cards, card_i, clicks, extracted,
                   args, returned, scan, rows, contacts, next_id, now, db_ret,
                   saves, bulk_vars, dom, run_vars>>

\* Specification SpecStore: save_profile and get_profile_by_url calls on one
\* database, in any order
InitStore ==
    /\ pc = "store"
    /\ args = DefaultArgs
    /\ profile = LinkedInProfile(DefaultArgs)
    /\ current_url = EmptyUrl
    /\ marker = "unprobed"
    /\ page_type = "none"
    /\ probes = 0
    /\ exc = "none"
    /\ profiles = <<>>
    /\ page_source = <<>>
    /\ cards = 0
    /\ card_i = 0
    /\ clicks = 0
    /\ extracted = 0
    /\ returned = "nothing"
    /\ scan = "none"
    /\ StoreIdle
    /\ dom = NoDom
    /\ RunIdle
    /\ BulkIdle

NextStore == SaveProfile \/ GetProfileByUrl

SpecStore == InitStore /\ [][NextStore]_vars

---------------------------------------------------------------------------
(* save_profile statement by statement: the transaction's working copy,    *)
(* the point where it fails, and what get_db_connection does with it.      *)
(* Here the contact table is the sequence of its rows in insertion order.  *)

\* the statement of save_profile that raises ("none": none does)
TxFailures == {"none", "connect", "lookup", "profile_write",
               "contact_delete", "contact_insert", "commit"}

\* contact_data of _save_contact_info: one tuple per list entry, the five
\* lists in the order emails, phones, websites, social_links, addresses
contact_data(id, p) ==
    LET tuples(type, list) ==
            [i \in 1..Len(list) |->
                [profile_id |-> id, contact_type |-> type,
                 contact_value |-> list[i],
                 contact_platform |-> IF type = "social"
                                      THEN platform_of(list[i]) ELSE "None"]]
    IN  tuples("email", p.emails) \o tuples("phone", p.phones)
          \o tuples("website", p.websites) \o tuples("social", p.social_links)
          \o tuples("address", p.addresses)

\* DELETE FROM linkedin_contact_info WHERE profile_id = %s
delete_contacts(tab, id) == SelectSeq(tab, LAMBDA c : c.profile_id # id)

\* UNIQUE(profile_id, contact_type, contact_value)
conflicts(tab, c) ==
    \E k \in 1..Len(tab) :
        /\ tab[k].profile_id = c.profile_id
        /\ tab[k].contact_type = c.contact_type
        /\ tab[k].contact_value = c.contact_value

\* mutant: the insert has no ON CONFLICT clause and no unique key
RECURSIVE insert_contacts_unchecked(_, _, _)
insert_contacts_unchecked(tab, data, i) ==
    IF i > Len(data) THEN tab
    ELSE insert_contacts_unchecked(Append(tab, data[i]), data, i + 1)

\* INSERT INTO linkedin_contact_info ... VALUES %s ON CONFLICT DO NOTHING
RECURSIVE insert_contacts(_, _, _)
insert_contacts(tab, data, i) ==
    IF i > Len(data) THEN tab
    ELSE insert_contacts(IF conflicts(tab, data[i]) THEN tab
                         ELSE Append(tab, data[i]), data, i + 1)

\* the working copy of the transaction when statement `fail` raises (or,
\* for "none" and "commit", when every statement has run): a statement
\* that raises has no effect of its own
tx_work(db, p, t, fail) ==
    LET existing == select_by_url(db.rows, p.linkedin_url)
        id == IF existing = {} THEN db.next_id
              ELSE (CHOOSE r \in existing : TRUE).id
        s0 == [rows |-> db.rows, contacts |-> db.contacts, id |-> 0]
        s1 == [rows |-> IF existing = {}
                        THEN insert_profile(db.rows, id, p, t)
                        ELSE update_profile(db.rows, id, p, t),
               contacts |-> db.contacts, id |-> id]
        s2 == [s1 EXCEPT !.contacts = delete_contacts(@, id)]
        s3 == [s2 EXCEPT !.contacts = insert_contacts(@, contact_data(id, p), 1)]
    IN  CASE fail \in {"connect", "lookup", "profile_write"} -> s0
          [] fail = "contact_delete" -> s1
          [] fail = "contact_insert" -> s2
          [] OTHER -> s3

\* mutant: the connection runs in autocommit mode
end_transaction_autocommit(committed, work, raised) == work

\* get_db_connection: an exception inside the with block is answered with
\* conn.rollback() and re-raised; conn.commit() publishes the working copy
end_transaction(committed, work, raised) ==
    IF raised THEN committed ELSE work

\* save_profile(profile) over the tables db = [rows, contacts, next_id]:
\* the tables after the call, the identifier returned (0 if it raised), and
\* the working copy the transaction had reached
save_profile_tx(db, p, t, fail) ==
    LET work == tx_work(db, p, t, fail)
        raised == fail # "none"
        final == end_transaction([rows |-> db.rows, contacts |-> db.contacts],
                                 [rows |-> work.rows, contacts |-> work.contacts],
                                 raised)
        drew_id == /\ select_by_url(db.rows, p.linkedin_url) = {}
                   /\ fail \notin {"connect", "lookup"}
    IN  [db |-> [rows |-> final.rows, contacts |-> final.contacts,
                 next_id |-> IF drew_id THEN db.next_id + 1 ELSE db.next_id],
         ret |-> IF raised THEN 0 ELSE work.id,
         raised |-> raised,
         work |-> work]

TwitterLink == <<"t", "w", "i", "t", "t", "e", "r", ".", "c", "o", "m", "/", "j">>

\* the records handed to save_profile: repeated and shared values included
TxProfiles ==
    { LinkedInProfile([DefaultArgs EXCEPT
         !.full_name = Ann,
         !.linkedin_url = u,
         !.emails = e,
         !.websites = l.websites,
         !.social_links = l.social_links,
         !.none = {"phones", "addresses"},
         !.extraction_success = TRUE])
      : u \in StoreUrls,
        e \in {<<>>, <<EmailLower>>, <<EmailLower, EmailLower>>, <<EmailMixed>>},
        l \in {[websites |-> <<>>, social_links |-> <<>>],
                [websites |-> <<UrlExternal>>,
                 social_links |-> <<UrlExternal, TwitterLink>>]} }

\* profile_id = storage.save_profile(profile)
SaveProfileTx ==
    /\ pc = "store_tx"
    /\ now < MaxSaves
    /\ \E p \in TxProfiles, fail \in TxFailures :
        LET r == save_profile_tx([rows |-> rows, contacts |-> contacts,
                                  next_id |-> next_id], p, now + 1, fail) IN
        /\ profile' = p
        /\ rows' = r.db.rows
        /\ contacts' = r.db.contacts
        /\ next_id' = r.db.next_id
        /\ db_ret' = r.ret
        /\ exc' = fail
    /\ now' = now + 1
    /\ UNCHANGED <<pc, current_url, marker, page_type, probes, profiles,
                   page_source, cards, card_i, clicks, extracted, args,
                   returned, scan, saves, fetched, bulk_vars, dom, run_vars>>

\* Specification SpecTx: save_profile calls on one database
InitTx ==
    /\ pc = "store_tx"
    /\ rows = {}
    /\ contacts = <<>>
    /\ next_id = 1
    /\ now = 0
    /\ db_ret = 0
    /\ saves = <<>>
    /\ fetched = NotFetched
    /\ args = DefaultArgs
    /\ profile = LinkedInProfile(DefaultArgs)
    /\ current_url = EmptyUrl
    /\ marker = "unprobed"
    /\ page_type = "none"
    /\ probes = 0
    /\ exc = "none"
    /\ profiles = <<>>
    /\ page_source = <<>>
    /\ cards = 0
    /\ card_i = 0
    /\ clicks = 0
    /\ extracted = 0
    /\ returned = "nothing"
    /\ scan = "none"
    /\ BulkIdle
    /\ dom = NoDom
    /\ RunIdle

NextTx == SaveProfileTx

SpecTx == InitTx /\ [][NextTx]_vars

---------------------------------------------------------------------------
(* The pattern scans as functions of the markup: the same scan applied     *)
(* twice to one record over the same markup.                               *)

\* the pattern scan of the flow named by `scan`
run_scan(kind, p, markup) ==
    IF kind = "base" THEN scan_base(p, markup) ELSE scan_contact_modal(p, markup)

\* the email, phone and website extraction over page_source
ScanOnce ==
    /\ pc = "scan_first"
    /\ profile' = run_scan(scan, profile, page_source)
    /\ pc' = "scan_again"
    /\ extracted' = extracted + 1
    /\ UNCHANGED <<current_url, marker, page_type, probes, exc, profiles,
                   page_source, cards, card_i, clicks, args, returned, scan,
                   store_vars, bulk_vars, dom, run_vars>>

\* the same extraction once more, on the record the first run populated
ScanAgain ==
    /\ pc = "scan_again"
    /\ profile' = run_scan(scan, profile, page_source)
    /\ pc' = "scan_done"
    /\ extracted' = extracted + 1
    /\ UNCHANGED <<current_url, marker, page_type, probes, exc, profiles,
                   page_source, cards, card_i, clicks, args, returned, scan,
                   store_vars, bulk_vars, dom, run_vars>>

\* Specification SpecRescan: every markup, both scans
InitRescan ==
    /\ pc = "scan_first"
    /\ scan \in {"base", "contact"}
    /\ page_source \in Markups
    /\ profile = FreshRecord
    /\ args = DefaultArgs
    /\ current_url = EmptyUrl
    /\ marker = "unprobed"
    /\ page_type = "none"
    /\ probes = 0
    /\ exc = "none"
    /\ profiles = <<>>
    /\ cards = 0
    /\ card_i = 0
    /\ clicks = 0
    /\ extracted = 0
    /\ returned = "nothing"
    /\ StoreIdle
    /\ dom = NoDom
    /\ RunIdle
    /\ BulkIdle

NextRescan == ScanOnce \/ ScanAgain

SpecRescan == InitRescan /\ [][NextRescan]_vars

---------------------------------------------------------------------------
(* The bulk callers: save_profiles_bulk (database_storage.py),             *)
(* extract_bulk_profiles (main.py) and bulk_contact_extraction_demo        *)
(* (contact_extraction_demo.py).  pc names the running call.               *)

\* mutant: an item whose created/updated look-up fails is not counted
tally_after_save_drops_check_failure(t, raised, ret, check_ok, is_new) ==
    IF raised THEN [t EXCEPT !.failed = @ + 1]
    ELSE IF ret = 0 \/ ~check_ok THEN t
    ELSE IF is_new THEN [t EXCEPT !.saved = @ + 1]
    ELSE [t EXCEPT !.updated = @ + 1]

\* the body of save_profiles_bulk's loop after save_profile: `if profile_id:`
\* then the created_at/updated_at look-up on a second connection; every
\* exception lands in the handler that counts a failure
tally_after_save(t, raised, ret, check_ok, is_new) ==
    IF raised THEN [t EXCEPT !.failed = @ + 1]
    ELSE IF ret = 0 THEN t
    ELSE IF ~check_ok THEN [t EXCEPT !.failed = @ + 1]
    ELSE IF is_new THEN [t EXCEPT !.saved = @ + 1]
    ELSE [t EXCEPT !.updated = @ + 1]

\* the input lists of the bulk calls
BulkProfiles == {p \in SaveProfiles : p.company = <<>>}
BulkUrls == {InPageUrl, LeadPageUrl, CompanyUrl}

\* the record a successful extraction of url returns
ExtractedFrom(url) ==
    LinkedInProfile([DefaultArgs EXCEPT !.full_name = Ann,
                                        !.linkedin_url = url,
                                        !.extraction_success = TRUE])

\* what extract_profile does for one url: a record with success set, a
\* record without, a list (search page), an exception
ExtractOutcomes == {"record", "failed_record", "list", "raised"}

\* one iteration of save_profiles_bulk: `for profile in profiles`
SaveBulkItem ==
    /\ pc = "save_bulk"
    /\ batch_i <= Len(batch)
    /\ \E fail \in SaveFailures, check_ok \in BOOLEAN :
        LET p == batch[batch_i]
            r == save_profile([rows |-> rows, contacts |-> contacts,
                               next_id |-> next_id], p, now + 1, fail)
            row == CHOOSE x \in r.db.rows : x.id = r.ret
        IN  /\ profile' = p
            /\ rows' = r.db.rows
            /\ contacts' = r.db.contacts
            /\ next_id' = r.db.next_id
            /\ db_ret' = r.ret
            /\ saves' = IF r.raised THEN saves
                        ELSE Append(saves, [profile |-> p, id |-> r.ret])
            /\ tally' = tally_after_save(tally, r.raised, r.ret, check_ok,
                            ~r.raised /\ row.created_at = row.updated_at)
    /\ now' = now + 1
    /\ attempted' = Append(attempted, batch_i)
    /\ batch_i' = batch_i + 1
    /\ UNCHANGED <<pc, current_url, marker, page_type, probes, exc, profiles,
                   page_source, cards, card_i, clicks, extracted, args,
                   returned, scan, fetched, batch, dom, run_vars>>

\* logger.info(results); return results
SaveBulkReturn ==
    /\ pc = "save_bulk"
    /\ batch_i > Len(batch)
    /\ pc' = "bulk_done"
    /\ returned' = "tally"
    /\ UNCHANGED <<current_url, marker, page_type, probes, exc, profile,
                   profiles, page_source, cards, card_i, clicks, extracted,
                   args, scan, store_vars, bulk_vars, dom, run_vars>>

\* one iteration of extract_bulk_profiles: extract_single_profile(url)
\* extracts, saves a successful record and returns it; it returns None for
\* anything else and for any exception (of the extraction or of the save)
ExtractBulkItem ==
    /\ pc = "extract_bulk"
    /\ batch_i <= Len(batch)
    /\ \E outcome \in ExtractOutcomes, fail \in SaveFailures :
        LET p == ExtractedFrom(batch[batch_i])
            r == save_profile([rows |-> rows, contacts |-> contacts,
                               next_id |-> next_id], p, now + 1, fail)
        IN  IF outcome = "record"
            THEN /\ profile' = p
                 /\ rows' = r.db.rows
                 /\ contacts' = r.db.contacts
                 /\ next_id' = r.db.next_id
                 /\ db_ret' = r.ret
                 /\ now' = now + 1
                 /\ saves' = IF r.raised THEN saves
                             ELSE Append(saves, [profile |-> p, id |-> r.ret])
                 /\ profiles' = IF r.raised THEN profiles
                                ELSE Append(profiles, p)
            ELSE /\ fail = "none"
                 /\ UNCHANGED <<profile, rows, contacts, next_id, db_ret, now,
                                saves, profiles>>
    /\ attempted' = Append(attempted, batch_i)
    /\ batch_i' = batch_i + 1
    /\ UNCHANGED <<pc, current_url, marker, page_type, probes, exc,
                   page_source, cards, card_i, clicks, extracted, args,
                   returned, scan, fetched, batch, tally, dom, run_vars>>

\* the closing report of extract_bulk_profiles computes
\* len(results)/len(profile_urls): a ZeroDivisionError for an empty input
ExtractBulkReturn ==
    /\ pc = "extract_bulk"
    /\ batch_i > Len(batch)
    /\ IF Len(batch) = 0
       THEN /\ pc' = "raised"
            /\ exc' = "extract_bulk_profiles"
            /\ UNCHANGED returned
       ELSE /\ pc' = "bulk_done"
            /\ returned' = "list"
            /\ UNCHANGED exc
    /\ UNCHANGED <<current_url, marker, page_type, probes, profile,
                   profiles, page_source, cards, card_i, clicks, extracted,
                   args, scan, store_vars, bulk_vars, dom, run_vars>>

\* one iteration of bulk_contact_extraction_demo:
\* demonstrate_contact_extraction(url) returns the contact data, an empty
\* dict, or raises (caught: `continue`)
DemoBulkItem ==
    /\ pc = "demo_bulk"
    /\ batch_i <= Len(batch)
    /\ \E outcome \in {"data", "empty", "raised"} :
        profiles' = IF outcome = "data"
                    THEN Append(profiles, ExtractedFrom(batch[batch_i]))
                    ELSE profiles
    /\ attempted' = Append(attempted, batch_i)
    /\ batch_i' = batch_i + 1
    /\ UNCHANGED <<pc, current_url, marker, page_type, probes, exc, profile,
                   page_source, cards, card_i, clicks, extracted, args,
                   returned, scan, store_vars, batch, tally, dom, run_vars>>

\* self._generate_bulk_report(results); return results
DemoBulkReturn ==
    /\ pc = "demo_bulk"
    /\ batch_i > Len(batch)
    /\ pc' = "bulk_done"
    /\ returned' = "list"
    /\ UNCHANGED <<current_url, marker, page_type, probes, exc, profile,
                   profiles, page_source, cards, card_i, clicks, extracted,
                   args, scan, store_vars, bulk_vars, dom, run_vars>>

\* Specification SpecBulk: one bulk call on a fresh database
InitBulk ==
    /\ \/ /\ pc = "save_bulk"
          /\ batch \in SeqUpTo(BulkProfiles, MaxBatch)
       \/ /\ pc \in {"extract_bulk", "demo_bulk"}
          /\ batch \in SeqUpTo(BulkUrls, MaxBatch)
    /\ batch_i = 1
    /\ tally = [saved |-> 0, updated |-> 0, failed |-> 0]
    /\ attempted = <<>>
    /\ args = DefaultArgs
    /\ profile = LinkedInProfile(DefaultArgs)
    /\ current_url = EmptyUrl
    /\ marker = "unprobed"
    /\ page_type = "none"
    /\ probes = 0
    /\ exc = "none"
    /\ profiles = <<>>
    /\ page_source = <<>>
    /\ cards = 0
    /\ card_i = 0
    /\ clicks = 0
    /\ extracted = 0
    /\ returned = "nothing"
    /\ scan = "none"
    /\ StoreIdle
    /\ dom = NoDom
    /\ RunIdle

NextBulk ==
    \/ SaveBulkItem \/ SaveBulkReturn
    \/ ExtractBulkItem \/ ExtractBulkReturn
    \/ DemoBulkItem \/ DemoBulkReturn

SpecBulk == InitBulk /\ [][NextBulk]_vars

---------------------------------------------------------------------------
(* LinkedInScraperMain.extract_sales_navigator_search (main.py): extract   *)
(* a search page, then save every record of the list.  One try block       *)
(* spans the whole method; its handler returns [].                         *)

\* what extractor.extract_profile(search_url) gives the caller
SearchExtractOutcomes == {"list", "record", "raised"}

\* profiles = self.extractor.extract_profile(search_url);
\* if isinstance(profiles, list): ... else: log, return []
\* (the collector only returns records with success set, at most max_items)
SearchExtract ==
    /\ pc = "search_extract"
    /\ \E outcome \in SearchExtractOutcomes :
        IF outcome = "list"
        THEN /\ \E lst \in SeqUpTo(BulkProfiles, MaxBatch) : batch' = lst
             /\ batch_i' = 1
             /\ pc' = "search_save"
             /\ UNCHANGED returned
        ELSE /\ pc' = "bulk_done"
             /\ returned' = "empty"
             /\ UNCHANGED <<batch, batch_i>>
    /\ extracted' = extracted + 1
    /\ UNCHANGED <<current_url, marker, page_type, probes, exc, profile,
                   profiles, page_source, cards, card_i, clicks, args, scan,
                   store_vars, tally, attempted, dom, run_vars>>

\* one iteration of `for profile in profiles`:
\* if profile.extraction_success: save_profile(profile); saved_count += 1.
\* save_profile raises on failure, and the loop has no handler of its own:
\* the exception leaves the loop for the method's handler, which returns []
SearchSaveItem ==
    /\ pc = "search_save"
    /\ batch_i <= Len(batch)
    /\ \E fail \in SaveFailures :
        LET p == batch[batch_i]
            r == save_profile([rows |-> rows, contacts |-> contacts,
                               next_id |-> next_id], p, now + 1, fail)
        IN  IF p.extraction_success
            THEN /\ profile' = p
                 /\ rows' = r.db.rows
                 /\ contacts' = r.db.contacts
                 /\ next_id' = r.db.next_id
                 /\ db_ret' = r.ret
                 /\ now' = now + 1
                 /\ saves' = IF r.raised THEN saves
                             ELSE Append(saves, [profile |-> p, id |-> r.ret])
                 /\ tally' = IF r.raised THEN tally
                             ELSE [tally EXCEPT !.saved = @ + 1]
                 /\ pc' = IF r.raised THEN "bulk_done" ELSE pc
                 /\ returned' = IF r.raised THEN "empty" ELSE returned
            ELSE /\ fail = "none"
                 /\ UNCHANGED <<profile, rows, contacts, next_id, db_ret, now,
                                saves, tally, pc, returned>>
    /\ attempted' = Append(attempted, batch_i)
    /\ batch_i' = batch_i + 1
    /\ UNCHANGED <<current_url, marker, page_type, probes, exc, profiles,
                   page_source, cards, card_i, clicks, extracted, args,
                   scan, fetched, batch, dom, run_vars>>

\* log the counts; return profiles
SearchSaveReturn ==
    /\ pc = "search_save"
    /\ batch_i > Len(batch)
    /\ profiles' = batch
    /\ pc' = "bulk_done"
    /\ returned' = "list"
    /\ UNCHANGED <<current_url, marker, page_type, probes, exc, profile,
                   page_source, cards, card_i, clicks, extracted,
                   args, scan, store_vars, bulk_vars, dom, run_vars>>

\* Specification SpecSearchSave: one call on a fresh database
InitSearchSave ==
    /\ pc = "search_extract"
    /\ current_url \in {SearchUrl, LeadPageUrl}
    /\ BulkIdle
    /\ args = DefaultArgs
    /\ profile = LinkedInProfile(DefaultArgs)
    /\ marker = "unprobed"
    /\ page_type = "none"
    /\ probes = 0
    /\ exc = "none"
    /\ profiles = <<>>
    /\ page_source = <<>>
    /\ cards = 0
    /\ card_i = 0
    /\ clicks = 0
    /\ extracted = 0
    /\ returned = "nothing"
    /\ scan = "none"
    /\ StoreIdle
    /\ dom = NoDom
    /\ RunIdle

NextSearchSave == SearchExtract \/ SearchSaveItem \/ SearchSaveReturn

SpecSearchSave == InitSearchSave /\ [][NextSearchSave]_vars

---------------------------------------------------------------------------
(* extract_single_profile (main.py), statement by statement: the call to   *)
(* extract_profile, the isinstance/success test, the save, the handler.    *)

\* the value extract_profile returns for a page of type pt: one of the
\* records a profile flow can return, the (possibly empty) list of the
\* search flow, the empty record for an unsupported page
ExtractProfileReturns(pt, url) ==
    CASE pt = "sales_navigator_search"
           -> {[list |-> l, record |-> LinkedInProfile(DefaultArgs)]
                 : l \in {<<>>, <<ExtractedFrom(url)>>}}
      [] pt \in {"sales_navigator_profile", "authenticated_profile",
                 "public_profile"}
           -> {[list |-> <<>>, record |-> r]
                 : r \in {ExtractedFrom(url),
                          [ExtractedFrom(url) EXCEPT !.extraction_success = FALSE],
                          [LinkedInProfile(DefaultArgs) EXCEPT !.linkedin_url = url]}}
      [] OTHER -> {[list |-> <<>>, record |-> LinkedInProfile(DefaultArgs)]}

\* profile = self.extractor.extract_profile(profile_url)
SingleExtract ==
    /\ pc = "single_call"
    /\ \E url \in StoreUrls, pt \in Categories, raises \in BOOLEAN :
        /\ current_url' = url
        /\ IF raises
           THEN /\ pc' = "single_handler"
                /\ exc' = "extract_profile"
                /\ UNCHANGED <<page_type, profile, profiles>>
           ELSE \E v \in ExtractProfileReturns(pt, url) :
                /\ pc' = "single_test"
                /\ page_type' = pt
                /\ profile' = v.record
                /\ profiles' = v.list
                /\ UNCHANGED exc
    /\ UNCHANGED <<marker, probes, page_source, cards, card_i, clicks,
                   extracted, args, returned, scan, store_vars, bulk_vars,
                   dom, run_vars>>

\* mutant: the test looks at the type of the value only
SingleTest_ignores_success ==
    /\ pc = "single_test"
    /\ IF page_type # "sales_navigator_search"
       THEN /\ pc' = "single_save"
            /\ UNCHANGED returned
       ELSE /\ pc' = "single_returned"
            /\ returned' = "none"
    /\ UNCHANGED <<current_url, marker, page_type, probes, exc, profile,
                   profiles, page_source, cards, card_i, clicks, extracted,
                   args, scan, store_vars, bulk_vars, dom, run_vars>>

\* if isinstance(profile, LinkedInProfile) and profile.extraction_success:
\* ... else: logger.error(...); return None
\* (the value is a LinkedInProfile unless the search flow returned it)
SingleTest ==
    /\ pc = "single_test"
    /\ IF page_type # "sales_navigator_search" /\ profile.extraction_success
       THEN /\ pc' = "single_save"
            /\ UNCHANGED returned
       ELSE /\ pc' = "single_returned"
            /\ returned' = "none"
    /\ UNCHANGED <<current_url, marker, page_type, probes, exc, profile,
                   profiles, page_source, cards, card_i, clicks, extracted,
                   args, scan, store_vars, bulk_vars, dom, run_vars>>

\* profile_id = self.storage.save_profile(profile); the log lines;
\* return profile
SingleSave ==
    /\ pc = "single_save"
    /\ \E fail \in SaveFailures :
        LET r == save_profile([rows |-> rows, contacts |-> contacts,
                               next_id |-> next_id], profile, now + 1, fail)
        IN  /\ rows' = r.db.rows
            /\ contacts' = r.db.contacts
            /\ next_id' = r.db.next_id
            /\ db_ret' = r.ret
            /\ IF r.raised
               THEN /\ pc' = "single_handler"
                    /\ exc' = "save_profile"
                    /\ UNCHANGED <<saves, returned>>
               ELSE /\ pc' = "single_returned"
                    /\ returned' = "record"
                    /\ saves' = Append(saves, [profile |-> profile, id |-> r.ret])
                    /\ UNCHANGED exc
    /\ now' = now + 1
    /\ UNCHANGED <<current_url, marker, page_type, probes, profile, profiles,
                   page_source, cards, card_i, clicks, extracted, args, scan,
                   fetched, bulk_vars, dom, run_vars>>

\* except Exception as e: logger.error(...); return None
SingleHandler ==
    /\ pc = "single_handler"
    /\ pc' = "single_returned"
    /\ returned' = "none"
    /\ UNCHANGED <<current_url, marker, page_type, probes, exc, profile,
                   profiles, page_source, cards, card_i, clicks, extracted,
                   args, scan, store_vars, bulk_vars, dom, run_vars>>

\* the caller calls extract_single_profile again
SingleCall ==
    /\ pc = "single_returned"
    /\ now < MaxSaves
    /\ pc' = "single_call"
    /\ exc' = "none"
    /\ returned' = "nothing"
    /\ page_type' = "none"
    /\ UNCHANGED <<current_url, marker, probes, profile, profiles,
                   page_source, cards, card_i, clicks, extracted, args, scan,
                   store_vars, bulk_vars, dom, run_vars>>

\* Specification SpecSingle: calls of extract_single_profile on one database
InitSingle ==
    /\ pc = "single_call"
    /\ current_url = EmptyUrl
    /\ BulkIdle
    /\ args = DefaultArgs
    /\ profile = LinkedInProfile(DefaultArgs)
    /\ marker = "unprobed"
    /\ page_type = "none"
    /\ probes = 0
    /\ exc = "none"
    /\ profiles = <<>>
    /\ page_source = <<>>
    /\ cards = 0
    /\ card_i = 0
    /\ clicks = 0
    /\ extracted = 0
    /\ returned = "nothing"
    /\ scan = "none"
    /\ StoreIdle
    /\ dom = NoDom
    /\ RunIdle

NextSingle ==
    SingleExtract \/ SingleTest \/ SingleSave \/ SingleHandler \/ SingleCall

SpecSingle == InitSingle /\ [][NextSingle]_vars

---------------------------------------------------------------------------
(* create_enhanced_browser (stealth_browser.py).  browser holds the call:  *)
(* its arguments as they stand, the module flag STEALTH_AVAILABLE, the     *)
(* environment BrowserConfig() reads, the creation attempts made so far,   *)
(* the recursion depth and the outcome.                                    *)

\* use_stealth: None, True or False
StealthArgs == {"none", "yes", "no"}

\* mutant: an explicit request for stealth is honoured without the library
resolve_stealth_trusts_request(use_stealth, available, stealth_mode) ==
    IF use_stealth = "none"
    THEN (IF available /\ stealth_mode THEN "yes" ELSE "no")
    ELSE use_stealth

\* if use_stealth is None: use_stealth = STEALTH_AVAILABLE and config.stealth_mode
\* elif use_stealth and not STEALTH_AVAILABLE: use_stealth = False
resolve_stealth(use_stealth, available, stealth_mode) ==
    IF use_stealth = "none"
    THEN (IF available /\ stealth_mode THEN "yes" ELSE "no")
    ELSE IF use_stealth = "yes" /\ ~available THEN "no"
    ELSE use_stealth

\* if config is None: config = BrowserConfig()
\* BrowserConfig.__init__ parses BROWSER_TIMEOUT with int(): a ValueError
\* when the variable is not a number; this statement is outside the try
BrowserDefaultConfig ==
    /\ pc = "browser_config"
    /\ IF browser.config = "none"
       THEN IF browser.env_timeout_ok
            THEN /\ browser' = [browser EXCEPT
                                   !.config = "default",
                                   !.stealth_mode = browser.env_stealth_mode]
                 /\ pc' = "browser_mode"
                 /\ UNCHANGED exc
            ELSE /\ browser' = [browser EXCEPT !.result = "raised"]
                 /\ pc' = "browser_raised"
                 /\ exc' = "BrowserConfig"
       ELSE /\ pc' = "browser_mode"
            /\ UNCHANGED <<browser, exc>>
    /\ UNCHANGED <<current_url, marker, page_type, probes, profile, profiles,
                   page_source, cards, card_i, clicks, extracted, args,
                   returned, scan, store_vars, bulk_vars, dom, sessions>>

\* the if/elif that settles use_stealth
BrowserResolveMode ==
    /\ pc = "browser_mode"
    /\ browser' = [browser EXCEPT
                      !.use_stealth = resolve_stealth(browser.use_stealth,
                                          browser.available, browser.stealth_mode)]
    /\ pc' = "browser_create"
    /\ UNCHANGED <<current_url, marker, page_type, probes, exc, profile,
                   profiles, page_source, cards, card_i, clicks, extracted,
                   args, returned, scan, store_vars, bulk_vars, dom, sessions>>

\* driver = get_undetected_chrome_driver(config): raises ImportError at once
\* without the library, otherwise builds the options and the driver; every
\* exception is logged and re-raised into create_enhanced_browser's handler
BrowserStealthAttempt ==
    /\ pc = "browser_create"
    /\ browser.use_stealth = "yes"
    /\ \E created \in BOOLEAN :
        IF browser.available /\ created
        THEN /\ browser' = [browser EXCEPT
                               !.attempts = Append(@, "stealth"),
                               !.result = "stealth_driver"]
             /\ pc' = "browser_returned"
        ELSE /\ browser' = [browser EXCEPT !.attempts = Append(@, "stealth")]
             /\ pc' = "browser_fallback"
    /\ UNCHANGED <<current_url, marker, page_type, probes, exc, profile,
                   profiles, page_source, cards, card_i, clicks, extracted,
                   args, returned, scan, store_vars, bulk_vars, dom, sessions>>

\* driver = get_original_selenium_driver(config): webdriver manager first,
\* then the system chromedriver; raises when both fail (or when the options
\* or the timeouts cannot be set)
BrowserStandardAttempt ==
    /\ pc = "browser_create"
    /\ browser.use_stealth = "no"
    /\ \E how \in {"manager", "system", "failed"} :
        IF how = "failed"
        THEN /\ browser' = [browser EXCEPT !.attempts = Append(@, "standard")]
             /\ pc' = "browser_fallback"
        ELSE /\ browser' = [browser EXCEPT
                               !.attempts = Append(@, "standard"),
                               !.result = "standard_driver"]
             /\ pc' = "browser_returned"
    /\ UNCHANGED <<current_url, marker, page_type, probes, exc, profile,
                   profiles, page_source, cards, card_i, clicks, extracted,
                   args, returned, scan, store_vars, bulk_vars, dom, sessions>>

\* except Exception: if use_stealth:
\*     return create_enhanced_browser(use_stealth=False, config=config)
\* else: raise
BrowserFallback ==
    /\ pc = "browser_fallback"
    /\ IF browser.use_stealth = "yes"
       THEN /\ browser' = [browser EXCEPT !.use_stealth = "no",
                                          !.depth = @ + 1]
            /\ pc' = "browser_config"
            /\ UNCHANGED exc
       ELSE /\ browser' = [browser EXCEPT !.result = "raised"]
            /\ pc' = "browser_raised"
            /\ exc' = "create_enhanced_browser"
    /\ UNCHANGED <<current_url, marker, page_type, probes, profile, profiles,
                   page_source, cards, card_i, clicks, extracted, args,
                   returned, scan, store_vars, bulk_vars, dom, sessions>>

\* the calls: every combination of arguments, library and environment
BrowserCalls ==
    [kind : {"call"},
     use_stealth : StealthArgs,
     requested : StealthArgs,
     config : {"none", "given"},
     stealth_mode : BOOLEAN,
     available : BOOLEAN,
     env_timeout_ok : BOOLEAN,
     env_stealth_mode : BOOLEAN,
     attempts : {<<>>},
     depth : {0},
     result : {"none"}]

\* Specification SpecBrowser: one call of create_enhanced_browser
InitBrowser ==
    /\ pc = "browser_config"
    /\ browser \in {b \in BrowserCalls :
                       /\ b.requested = b.use_stealth
                       /\ b.config = "none" => b.stealth_mode = b.env_stealth_mode}
    /\ sessions = NoSessions
    /\ current_url = EmptyUrl
    /\ marker = "unprobed"
    /\ page_type = "none"
    /\ probes = 0
    /\ exc = "none"
    /\ args = DefaultArgs
    /\ profile = LinkedInProfile(DefaultArgs)
    /\ profiles = <<>>
    /\ page_source = <<>>
    /\ cards = 0
    /\ card_i = 0
    /\ clicks = 0
    /\ extracted = 0
    /\ returned = "nothing"
    /\ scan = "none"
    /\ StoreIdle
    /\ BulkIdle
    /\ dom = NoDom

NextBrowser ==
    \/ BrowserDefaultConfig \/ BrowserResolveMode \/ BrowserStealthAttempt
    \/ BrowserStandardAttempt \/ BrowserFallback

SpecBrowser == InitBrowser /\ [][NextBrowser]_vars

\* the call is sequential code: a step that can be taken is taken
SpecBrowserLive == SpecBrowser /\ WF_vars(NextBrowser)

---------------------------------------------------------------------------
(* main() of main.py: the browser sessions it opens and quits.             *)
(* sessions.flags are the command-line options given; sessions.main is the *)
(* driver of LinkedInScraperMain, sessions.demo the driver created by      *)
(* ContactExtractionDemo.initialize: "none", "open" or "quit".             *)

MainFlags == {"url", "bulk", "sales_navigator", "stats", "demo", "no_login",
              "export_csv"}

\* how a step of main() can end: it returns, it raises an Exception, or
\* the user interrupts it (KeyboardInterrupt is not an Exception)
StepEnds == {"ok", "exception", "interrupt"}

\* if not any([args.url, args.bulk, args.sales_navigator, args.stats,
\* args.demo]): parser.print_help(); return     (no scraper is created)
MainParse ==
    /\ pc = "main_start"
    /\ pc' = IF sessions.flags \cap {"url", "bulk", "sales_navigator",
                                      "stats", "demo"} = {}
             THEN "main_returned" ELSE "main_initialize"
    /\ UNCHANGED <<current_url, marker, page_type, probes, exc, profile,
                   profiles, page_source, cards, card_i, clicks, extracted,
                   args, returned, scan, store_vars, bulk_vars, dom, run_vars>>

\* scraper.initialize(): self.driver = create_enhanced_browser(...), then
\* the extractor, then LinkedInDatabaseStorage(); any Exception gives False
\* (opened: the driver was assigned before the step ended)
MainInitialize ==
    /\ pc = "main_initialize"
    /\ \E ends \in StepEnds, opened \in BOOLEAN :
        /\ ends = "ok" => opened
        /\ sessions' = [sessions EXCEPT
                           !.main = IF opened THEN "open" ELSE "none"]
        /\ pc' = IF ends = "ok" THEN "main_mode" ELSE "main_finally"
    /\ UNCHANGED <<current_url, marker, page_type, probes, exc, profile,
                   profiles, page_source, cards, card_i, clicks, extracted,
                   args, returned, scan, store_vars, bulk_vars, dom, browser>>

\* the branches after initialization: demo mode, statistics only, or login
MainMode ==
    /\ pc = "main_mode"
    /\ pc' = IF "demo" \in sessions.flags THEN "demo_initialize"
             ELSE IF "stats" \in sessions.flags
                     /\ sessions.flags \cap {"url", "bulk", "sales_navigator"} = {}
                  THEN "main_stats"
             ELSE IF "no_login" \in sessions.flags THEN "main_extract"
             ELSE "main_login"
    /\ UNCHANGED <<current_url, marker, page_type, probes, exc, profile,
                   profiles, page_source, cards, card_i, clicks, extracted,
                   args, returned, scan, store_vars, bulk_vars, dom, run_vars>>

\* demo = ContactExtractionDemo(); if demo.initialize(): ...
\* initialize creates its own browser, then the extractor and the storage;
\* any Exception gives False, and main then returns without demo.cleanup()
DemoInitialize ==
    /\ pc = "demo_initialize"
    /\ \E ends \in StepEnds, opened \in BOOLEAN :
        /\ ends = "ok" => opened
        /\ sessions' = [sessions EXCEPT
                           !.demo = IF opened THEN "open" ELSE "none"]
        /\ pc' = IF ends = "ok" THEN "demo_run" ELSE "main_finally"
    /\ UNCHANGED <<current_url, marker, page_type, probes, exc, profile,
                   profiles, page_source, cards, card_i, clicks, extracted,
                   args, returned, scan, store_vars, bulk_vars, dom, browser>>

\* demo.bulk_contact_extraction_demo(demo_profiles): an exception or an
\* interruption leaves main's try block before demo.cleanup()
DemoRun ==
    /\ pc = "demo_run"
    /\ \E ends \in StepEnds :
        pc' = IF ends = "ok" THEN "demo_cleanup" ELSE "main_finally"
    /\ UNCHANGED <<current_url, marker, page_type, probes, exc, profile,
                   profiles, page_source, cards, card_i, clicks, extracted,
                   args, returned, scan, store_vars, bulk_vars, dom, run_vars>>

\* demo.cleanup(): self.extractor.driver.quit(); return
DemoCleanup ==
    /\ pc = "demo_cleanup"
    /\ sessions' = [sessions EXCEPT !.demo = "quit"]
    /\ pc' = "main_finally"
    /\ UNCHANGED <<current_url, marker, page_type, probes, exc, profile,
                   profiles, page_source, cards, card_i, clicks, extracted,
                   args, returned, scan, store_vars, bulk_vars, dom, browser>>

\* scraper.get_statistics(); return
MainStats ==
    /\ pc = "main_stats"
    /\ pc' = "main_finally"
    /\ UNCHANGED <<current_url, marker, page_type, probes, exc, profile,
                   profiles, page_source, cards, card_i, clicks, extracted,
                   args, returned, scan, store_vars, bulk_vars, dom, run_vars>>

\* if not scraper.login_to_linkedin(): log, return
MainLogin ==
    /\ pc = "main_login"
    /\ \E ends \in StepEnds, logged_in \in BOOLEAN :
        pc' = IF ends = "ok" /\ logged_in THEN "main_extract" ELSE "main_finally"
    /\ UNCHANGED <<current_url, marker, page_type, probes, exc, profile,
                   profiles, page_source, cards, card_i, clicks, extracted,
                   args, returned, scan, store_vars, bulk_vars, dom, run_vars>>

\* the extraction requests, the export and the statistics
MainExtract ==
    /\ pc = "main_extract"
    /\ \E ends \in StepEnds : pc' = "main_finally"
    /\ extracted' = extracted + 1
    /\ UNCHANGED <<current_url, marker, page_type, probes, exc, profile,
                   profiles, page_source, cards, card_i, clicks,
                   args, returned, scan, store_vars, bulk_vars, dom, run_vars>>

\* finally: scraper.cleanup(): if self.driver: self.driver.quit()
MainFinally ==
    /\ pc = "main_finally"
    /\ sessions' = [sessions EXCEPT
                       !.main = IF @ = "open" THEN "quit" ELSE @]
    /\ pc' = "main_returned"
    /\ UNCHANGED <<current_url, marker, page_type, probes, exc, profile,
                   profiles, page_source, cards, card_i, clicks, extracted,
                   args, returned, scan, store_vars, bulk_vars, dom, browser>>

\* Specification SpecMain: one run of main() for every set of options
InitMain ==
    /\ pc = "main_start"
    /\ \E flags \in SUBSET MainFlags :
          sessions = [main |-> "none", demo |-> "none", flags |-> flags]
    /\ browser = NoBrowser
    /\ current_url = EmptyUrl
    /\ marker = "unprobed"
    /\ page_type = "none"
    /\ probes = 0
    /\ exc = "none"
    /\ args = DefaultArgs
    /\ profile = LinkedInProfile(DefaultArgs)
    /\ profiles = <<>>
    /\ page_source = <<>>
    /\ cards = 0
    /\ card_i = 0
    /\ clicks = 0
    /\ extracted = 0
    /\ returned = "nothing"
    /\ scan = "none"
    /\ StoreIdle
    /\ BulkIdle
    /\ dom = NoDom

NextMain ==
    \/ MainParse \/ MainInitialize \/ MainMode \/ DemoInitialize \/ DemoRun
    \/ DemoCleanup \/ MainStats \/ MainLogin \/ MainExtract \/ MainFinally

SpecMain == InitMain /\ [][NextMain]_vars
---------------------------------------------------------------------------
(* Claims about the page classifier (SpecClassify) *)

IsSalesLead(u) == HasSegPair(u, "sales", "lead")
IsSalesSearch(u) == HasSegPair(u, "sales", "search") \/ HasSegPair(u, "sales", "lists")

\* C1: whenever the current URL contains '/sales/lead/' and was read,
\* detect_page_type returns sales_navigator_profile, whatever the state of
\* the marker element, and issues no DOM probe.
C1_SalesLeadRegardlessOfDom ==
    (pc = "classified" /\ exc # "current_url" /\ IsSalesLead(current_url))
        => /\ page_type = "sales_navigator_profile"
           /\ exc = "none"
           /\ probes = 0

C1_Witness ==
    /\ pc = "classified"
    /\ IsSalesLead(current_url)
    /\ HasSeg(current_url, "in")
    /\ marker = "error"
    /\ page_type = "sales_navigator_profile"

\* C2: for a URL containing '/in/' and no Sales Navigator marker, the result
\* is authenticated_profile when the marker element is found and
\* public_profile when it is not found, and no other category is returned.
C2_ProfileByMarker ==
    (/\ pc = "classified" /\ exc # "current_url"
     /\ HasSeg(current_url, "in")
     /\ ~IsSalesLead(current_url) /\ ~IsSalesSearch(current_url))
        => /\ marker = "present" => (page_type = "authenticated_profile" /\ exc = "none")
           /\ marker = "absent" => (page_type = "public_profile" /\ exc = "none")
           /\ exc = "none" => page_type \in {"authenticated_profile", "public_profile"}

C2_Witness ==
    /\ pc = "classified"
    /\ HasSeg(current_url, "in")
    /\ ~IsSalesLead(current_url) /\ ~IsSalesSearch(current_url)
    /\ marker = "absent"
    /\ page_type = "public_profile"

---------------------------------------------------------------------------
(* Claims about the profile record (SpecRecord) *)

\* C4 as stated: after any construction the success flag is true exactly
\* when full_name is non-empty.
C4_SuccessIffName ==
    pc = "constructed" => (profile.extraction_success <=> profile.full_name # <<>>)

\* C4 amended: the constructor stores the success flag it is given (false
\* when none is given) whatever full_name is; the default-constructed
\* record has the flag false and the name empty.
C4_SuccessAsSupplied ==
    pc = "constructed"
        => /\ profile.extraction_success = args.extraction_success
           /\ profile.full_name = args.full_name
           /\ args = DefaultArgs
                => (~profile.extraction_success /\ profile.full_name = <<>>)

C4_Witness ==
    /\ pc = "constructed"
    /\ profile.full_name # <<>>
    /\ ~profile.extraction_success

\* C5: after construction, and after re-running the initializer on a record
\* whose list field was set to None, none of the five contact lists is
\* absent; the default record has all five empty; lists handed to the
\* constructor are kept unchanged.
C5_ListsNeverAbsent ==
    /\ pc \in {"constructed", "reinit"} => profile.none = {}
    /\ (pc = "constructed" /\ args = DefaultArgs)
          => \A f \in ListFields : profile[f] = <<>>
    /\ pc = "constructed"
          => \A f \in ListFields \ args.none : profile[f] = args[f]

C5_Witness ==
    /\ pc = "reinit"
    /\ profile.none = {}
    /\ args.none # {}
    /\ \E f \in ListFields : profile[f] # <<>>

---------------------------------------------------------------------------
(* Claims about the search result collector (SpecSearch) *)

\* C6: the collector never holds or returns more than max_items records,
\* and every record in the list has a non-empty full_name: a card without
\* a name is left out.
C6_AtMostMaxItemsAllNamed ==
    /\ Len(profiles) <= max_items
    /\ \A i \in 1..Len(profiles) :
        /\ profiles[i].full_name # <<>>
        /\ profiles[i].extraction_success

C6_Witness ==
    /\ pc = "done"
    /\ returned = "list"
    /\ cards > max_items
    /\ Len(profiles) = max_items

C6_WitnessNamelessSkipped ==
    /\ pc = "search_cards"
    /\ card_i > 1
    /\ profile.full_name = <<>>
    /\ profile.role # <<>>
    /\ Len(profiles) < card_i - 1

---------------------------------------------------------------------------
(* Claims about contact extraction (SpecContact) *)

\* C7: every e-mail address that occurs in the scanned markup, verbatim or
\* in another letter case, however often, is in the emails list in
\* lowercase exactly once.
C7_EmailsLowercasedOnce ==
    scan # "none"
        => \A i \in 1..Len(page_source) :
              Contains(page_source[i], At)
                  => Count(Lower(Address(page_source[i])), profile.emails) = 1

\* C8: no entry of the websites list contains the scraped site's own domain,
\* in whatever letter case the URL pattern matched it.
C8_NoSelfDomainWebsite ==
    \A i \in 1..Len(profile.websites) :
        ~Contains(Lower(profile.websites[i]), SelfDomain)

---------------------------------------------------------------------------
(* Claims about extract_profile (Spec) *)

\* C9: for a page classified company_page or unknown, extract_profile
\* returns one record with success false, an empty name and five empty
\* contact lists, without raising, and runs no field extraction and no
\* click.
C9_UnsupportedPageEmptyRecord ==
    page_type \in {"company_page", "unknown"}
        => /\ exc = "none"
           /\ extracted = 0
           /\ clicks = 0
           /\ pc \in {"dispatch", "done"}
           /\ pc = "done"
                => /\ returned = "record"
                   /\ ~profile.extraction_success
                   /\ profile.full_name = <<>>
                   /\ profile.none = {}
                   /\ \A f \in ListFields : profile[f] = <<>>

C9_Witness ==
    /\ pc = "done"
    /\ page_type = "company_page"
    /\ current_url = CompanyUrl
    /\ returned = "record"

\* C10: once navigation has succeeded, no failure of an extraction step
\* escapes extract_profile as an exception: the only exception that
\* reaches the caller is a navigation failure.
C10_NoExtractionFailureEscapes ==
    exc \in {"none", "navigate"}


---------------------------------------------------------------------------
(* Claims about the profile store *)

\* the last successful save of url among the first n saves (0: none)
LastSaveOf(url, n) ==
    IF \E i \in 1..n : saves[i].profile.linkedin_url = url
    THEN CHOOSE i \in 1..n :
            /\ saves[i].profile.linkedin_url = url
            /\ \A j \in (i+1)..n : saves[j].profile.linkedin_url # url
    ELSE 0

\* C11: save_profile is an upsert keyed by linkedin_url: after any sequence
\* of successful saves the table holds exactly one row per distinct
\* linkedin_url saved, two saves of the same linkedin_url return the same
\* identifier, and the row's fields are those of the most recent save.
C11_SaveIsUpsertByUrl ==
    /\ \A r1, r2 \in rows :
          r1.data.linkedin_url = r2.data.linkedin_url => r1 = r2
    /\ {r.data.linkedin_url : r \in rows}
          = {saves[i].profile.linkedin_url : i \in 1..Len(saves)}
    /\ \A i, j \in 1..Len(saves) :
          saves[i].profile.linkedin_url = saves[j].profile.linkedin_url
              => saves[i].id = saves[j].id
    /\ \A r \in rows :
          LET k == LastSaveOf(r.data.linkedin_url, Len(saves)) IN
          /\ k > 0
          /\ r.id = saves[k].id
          /\ r.data = row_values(saves[k].profile)

\* a url saved twice with different fields, then a third save of another
C11_Witness ==
    /\ Len(saves) = 3
    /\ saves[1].profile.linkedin_url = saves[2].profile.linkedin_url
    /\ saves[1].profile.company # saves[2].profile.company
    /\ saves[3].profile.linkedin_url # saves[1].profile.linkedin_url
    /\ Cardinality(rows) = 2

\* C12: after save_profile(p) has succeeded with a positive identifier,
\* get_profile_by_url(p.linkedin_url) returns the stored profile, whose
\* full_name and company are those of p.
C12_SaveThenRetrieve ==
    (fetched.called /\ LastSaveOf(fetched.url, fetched.at) > 0)
        => LET p == saves[LastSaveOf(fetched.url, fetched.at)] IN
           /\ p.id > 0
           /\ ~fetched.none
           /\ fetched.row.data.full_name = p.profile.full_name
           /\ fetched.row.data.company = p.profile.company

---------------------------------------------------------------------------
(* Claims about contact extraction, continued (SpecContact) *)

\* C13: phone matches are kept in their matched form and deduplicated on
\* the digit-stripped key: no two entries of the phones list have the same
\* key, and no entry's key is shorter than 10 digits.
C13_PhonesUniqueByKey ==
    /\ \A i, j \in 1..Len(profile.phones) :
          i # j => clean_phone(profile.phones[i]) # clean_phone(profile.phones[j])
    /\ \A i \in 1..Len(profile.phones) :
          Len(clean_phone(profile.phones[i])) >= 10

\* the set of entries of a list
Entries(lst) == {lst[i] : i \in 1..Len(lst)}

\* C14: pattern extraction is idempotent: a second run of the email, phone
\* and website extraction over the same markup, on the record the first
\* run populated, leaves the sets of emails, phones and websites as they
\* were after the first run.
C14_ScanIdempotentOnSets ==
    pc = "scan_done"
        => LET first == run_scan(scan, FreshRecord, page_source) IN
           /\ Entries(profile.emails) = Entries(first.emails)
           /\ Entries(profile.phones) = Entries(first.phones)
           /\ Entries(profile.websites) = Entries(first.websites)

\* a second run that did append to a list (a repeated entry)
C14_Witness ==
    /\ pc = "scan_done"
    /\ scan = "base"
    /\ profile.emails # <<>>
    /\ Len(profile.phones) > Len(run_scan(scan, FreshRecord, page_source).phones)

---------------------------------------------------------------------------
(* Claims about the single-profile flows (Spec) *)

\* the run was dispatched to extract_regular_profile
InRegularFlow == page_type \in {"authenticated_profile", "public_profile"}

\* C15: an extraction that finds the page to be a public_profile never
\* attempts the contact reveal: at no point is the contact-info control
\* looked up or clicked, and the record's emails, phones and websites are
\* empty; the reveal is attempted only for an authenticated_profile.
C15_PublicNeverRevealsContact ==
    InRegularFlow
        => /\ profile.profile_type = "public_profile"
                => /\ pc # "auth_contact"
                   /\ scan = "none"
                   /\ clicks = 0
                   /\ profile.emails = <<>>
                   /\ profile.phones = <<>>
                   /\ profile.websites = <<>>
           /\ (pc = "auth_contact" \/ scan # "none" \/ clicks > 0)
                => profile.profile_type = "authenticated_profile"

\* a public profile extracted with its name, returned
C15_Witness ==
    /\ pc = "done"
    /\ InRegularFlow
    /\ profile.profile_type = "public_profile"
    /\ profile.full_name # <<>>
    /\ profile.extraction_success
    /\ returned = "record"

\* a is an initial segment of b
IsPrefix(a, b) == Len(a) <= Len(b) /\ SubSeq(b, 1, Len(a)) = a

\* C16: in the Sales Navigator flow a failure to locate or activate the
\* contact-reveal trigger is not fatal: once the base page has been
\* scanned, no step raises, every step keeps the emails, phones and
\* websites gathered so far in the record and in the same order, and the
\* flow ends by returning the record.
C16_RevealFailureKeepsBaseContacts ==
    [][(page_type = "sales_navigator_profile" /\ scan = "base")
         => /\ exc' = "none"
            /\ pc' \in {"sn_buttons", "sn_modal", "sn_about", "done"}
            /\ IsPrefix(profile.emails, profile'.emails)
            /\ IsPrefix(profile.phones, profile'.phones)
            /\ IsPrefix(profile.websites, profile'.websites)
            /\ pc' = "done" => returned' = "record"]_vars

\* the button lookup raised after a base scan that found an address and a
\* phone number, and the record was returned
C16_Witness ==
    /\ pc = "done"
    /\ page_type = "sales_navigator_profile"
    /\ scan = "base"
    /\ cards = -1
    /\ returned = "record"
    /\ profile.emails # <<>>
    /\ profile.phones # <<>>

\* a button was found, its click raised, and the record was returned
C16_WitnessClickFailed ==
    /\ pc = "done"
    /\ page_type = "sales_navigator_profile"
    /\ scan = "base"
    /\ clicks = 1
    /\ returned = "record"
    /\ profile.websites # <<>>
    /\ profile.emails = scan_base(FreshRecord, page_source).emails

---------------------------------------------------------------------------
(* Claims about the bulk callers (SpecBulk) *)

\* C17: in the bulk callers every input item is attempted exactly once and
\* in input order, a failure on one item never keeps the later ones from
\* being processed, and the tally accounts for every item: for
\* save_profiles_bulk saved + updated + failed is the number of profiles.
C17_BulkAttemptsEveryItemOnce ==
    /\ attempted = [k \in 1..(batch_i - 1) |-> k]
    /\ batch_i <= Len(batch) + 1
    /\ pc = "bulk_done" => Len(attempted) = Len(batch)
    /\ pc = "raised" => batch = <<>>
    /\ tally.saved + tally.updated + tally.failed
          = IF returned = "tally" \/ pc = "save_bulk" THEN Len(attempted) ELSE 0
    /\ returned = "tally"
          => tally.saved + tally.updated + tally.failed = Len(batch)
    /\ Len(profiles) <= Len(attempted)

\* save_profiles_bulk over three profiles: one failed before the last,
\* one was new, one was an update
C17_Witness ==
    /\ pc = "bulk_done"
    /\ returned = "tally"
    /\ Len(batch) = 3
    /\ tally = [saved |-> 1, updated |-> 1, failed |-> 1]
    /\ db_ret > 0
    /\ Len(saves) = 2

\* extract_bulk_profiles over three urls of which only the last one yielded
C17_WitnessExtract ==
    /\ pc = "bulk_done"
    /\ returned = "list"
    /\ Len(batch) = 3
    /\ Len(profiles) = 1
    /\ profiles[1].linkedin_url = batch[3]
    /\ batch[3] # batch[1] /\ batch[3] # batch[2]
    /\ saves # <<>>

---------------------------------------------------------------------------
(* Claims about field matching (SpecFields) *)

\* the trimmed text of the earliest locator that yields non-empty text
\* (empty when none does)
FirstNonEmpty(outs) ==
    LET hits == {i \in 1..Len(outs) :
                    outs[i].tag = "elem" /\ Strip(outs[i].text) # <<>>}
    IN  IF hits = {} THEN <<>>
        ELSE Strip(outs[CHOOSE i \in hits : \A j \in hits : i <= j].text)

\* what the first company locator of the regular flow yields
SoupCompany(page) ==
    IF page.soup_ok THEN CompanyFromSoup(<<>>, page.soup_texts, 1) ELSE <<>>

\* C18: field matching is strict first-match-wins: name, role, company and
\* geography/location end as the trimmed text of the earliest locator of
\* the field's list that yields non-empty text, a later locator never
\* overrides it, and a field no locator yields text for keeps its empty
\* default.  (The role of the regular flow passes a filter: see C19.)
C18_FirstLocatorWins ==
    pc = "fields_matched"
        => IF dom.kind = "sales_navigator"
           THEN /\ profile.full_name = FirstNonEmpty(dom.page.name)
                /\ profile.role = FirstNonEmpty(dom.page.role)
                /\ profile.company = FirstNonEmpty(dom.page.company)
                /\ profile.geography = FirstNonEmpty(dom.page.location)
           ELSE /\ profile.full_name = FirstNonEmpty(dom.page.name)
                /\ profile.location = FirstNonEmpty(dom.page.location)
                /\ profile.company =
                      IF SoupCompany(dom.page) # <<>>
                      THEN SoupCompany(dom.page)
                      ELSE FirstNonEmpty(dom.page.company)

\* the same, on the Sales Navigator flow alone
C18_FirstLocatorWinsSalesNavigator ==
    (pc = "fields_matched" /\ dom.kind = "sales_navigator")
        => /\ profile.full_name = FirstNonEmpty(dom.page.name)
           /\ profile.role = FirstNonEmpty(dom.page.role)
           /\ profile.company = FirstNonEmpty(dom.page.company)
           /\ profile.geography = FirstNonEmpty(dom.page.location)

\* the role candidates of a page, locator by locator, element by element
RECURSIVE RoleCandidates(_, _)
RoleCandidates(sels, i) ==
    IF i > Len(sels) THEN <<>>
    ELSE [j \in 1..Len(sels[i]) |-> Strip(sels[i][j].text)]
            \o RoleCandidates(sels, i + 1)

HasBoilerplate(text) == \E b \in Boilerplate : Contains(Lower(text), b)

\* the first candidate within the given lengths and free of boilerplate
FirstRoleWithin(cands, lo, hi) ==
    LET ok == {k \in 1..Len(cands) :
                  /\ Len(cands[k]) >= lo
                  /\ Len(cands[k]) <= hi
                  /\ ~HasBoilerplate(cands[k])}
    IN  IF ok = {} THEN <<>>
        ELSE cands[CHOOSE k \in ok : \A j \in ok : k <= j]

\* C19 as stated: a role candidate of the regular flow is rejected exactly
\* when it has under 10 or over 200 characters or contains a boilerplate
\* phrase in any letter case (texts of exactly 10 and exactly 200
\* characters are accepted), and a rejected candidate does not end the
\* search: the role is the first candidate that is not rejected.
C19_RoleFilterInclusive ==
    (pc = "fields_matched" /\ dom.kind = "regular")
        => profile.role = FirstRoleWithin(RoleCandidates(dom.page.role, 1),
                                          role_min_len, role_max_len)

\* C19, amended: a candidate is rejected exactly when it has at most 10 or
\* at least 200 characters or contains a boilerplate phrase in any letter
\* case; a rejected candidate does not end the search.
C19_RoleFilterExclusive ==
    (pc = "fields_matched" /\ dom.kind = "regular")
        => profile.role = FirstRoleWithin(RoleCandidates(dom.page.role, 1),
                                          role_min_len + 1, role_max_len - 1)

\* a page whose first role candidates are rejected (200 characters) and
\* whose next one (11 characters) is taken
C19_Witness ==
    /\ pc = "fields_matched"
    /\ dom.kind = "regular"
    /\ Len(dom.page.role[1]) = 2
    /\ Strip(dom.page.role[1][1].text) = RoleAtMax
    /\ profile.role = RoleOverMin

---------------------------------------------------------------------------
(* Claims about the search result collector, continued (SpecSearch) *)

\* C20: a failure while processing one card is caught, the card adds no
\* record, and processing goes on with the next card: as long as one of
\* the first max_items cards is left the next step processes it, appending
\* its record exactly when the record's success flag is set, and after the
\* last of them the list is returned as it stands.
C20_FailedCardSkippedOthersKept ==
    [][pc = "search_cards"
         => /\ exc' = "none"
            /\ IF card_i <= cards /\ card_i <= max_items
               THEN /\ pc' = "search_cards"
                    /\ card_i' = card_i + 1
                    /\ profiles' = IF profile'.extraction_success
                                   THEN Append(profiles, profile')
                                   ELSE profiles
               ELSE /\ pc' = "done"
                    /\ returned' = "list"
                    /\ profiles' = profiles]_vars

\* the first card gave a record, the second raised (its record is blank),
\* and a third card is still to be processed
C20_Witness ==
    /\ pc = "search_cards"
    /\ card_i = 3
    /\ cards >= 3
    /\ Len(profiles) = 1
    /\ ~profile.extraction_success
    /\ profile.full_name = <<>>
    /\ profile.role = <<>>

---------------------------------------------------------------------------
(* Claims about the two single-profile flows, continued (Spec) *)

\* the record a single-profile flow has returned
SingleFlowReturned ==
    /\ pc = "done"
    /\ returned = "record"
    /\ page_type \in {"sales_navigator_profile", "authenticated_profile",
                      "public_profile"}

---------------------------------------------------------------------------
(* Claims about extract_sales_navigator_search of main.py (SpecSearchSave) *)

\* C22: a failure to save one record of the extracted list does not stop
\* the batch: when the call has returned, every record of the list was
\* reached by the save loop and the extracted list is what was returned.
C22_SaveFailureDoesNotStopBatch ==
    (pc = "bulk_done" /\ batch # <<>>)
        => /\ returned = "list"
           /\ profiles = batch
           /\ Len(attempted) = Len(batch)

---------------------------------------------------------------------------
(* Claims about the contact lists, continued (SpecRescan) *)

\* no value occurs twice in lst
NoRepeats(lst) ==
    \A i, j \in 1..Len(lst) : lst[i] = lst[j] => i = j

\* lst with every repeated occurrence after the first removed
RECURSIVE FirstOccurrences(_, _, _)
FirstOccurrences(acc, lst, i) ==
    IF i > Len(lst) THEN acc
    ELSE FirstOccurrences(IF InList(lst[i], acc) THEN acc
                          ELSE Append(acc, lst[i]), lst, i + 1)

\* the websites a scan of markup discovers, in the order it discovers them
Discovered(kind, markup) ==
    SelectSeq(IF kind = "base"
              THEN FindAll("url_nocase", markup) \o FindAll("www", markup)
              ELSE FindAll("url", markup),
              LAMBDA w : ~Contains(w, SelfDomain))

\* C23: after the contact scan of a single-profile extraction (either
\* flow, run once on the fresh record) the websites list holds no two equal
\* strings and lists the discovered URLs in discovery order.
C23_WebsitesUniqueInOrder ==
    pc = "scan_again"
        => /\ NoRepeats(profile.websites)
           /\ profile.websites
                = FirstOccurrences(<<>>, Discovered(scan, page_source), 1)

\* the part that holds of the Sales Navigator flow's scan
C23_WebsitesUniqueInOrderSalesNavigator ==
    (pc = "scan_again" /\ scan = "base")
        => /\ NoRepeats(profile.websites)
           /\ profile.websites
                = FirstOccurrences(<<>>, Discovered(scan, page_source), 1)

---------------------------------------------------------------------------
(* Claims about the category of returned records (Spec) *)

\* C24: the category of every record extract_profile returns, single or
\* inside a search-result list, is one of the six page types.
C24_CategoryInEnumeration ==
    pc = "done"
        => /\ returned = "record" => profile.profile_type \in Categories
           /\ returned = "list"
                => \A i \in 1..Len(profiles) :
                       profiles[i].profile_type \in Categories

\* what the code stores: the Sales Navigator flow writes "sales_navigator",
\* the regular flow the page type it detects (or leaves the default when
\* the detection raises), the search collector "sales_navigator_search",
\* and an unsupported page gets the default "unknown"
C24_CategoryAsStored ==
    pc = "done"
        => /\ returned = "record"
                => profile.profile_type \in
                     CASE page_type = "sales_navigator_profile"
                            -> {"sales_navigator"}
                       [] page_type \in {"authenticated_profile", "public_profile"}
                            -> {"authenticated_profile", "public_profile", "unknown"}
                       [] OTHER -> {"unknown"}
           /\ returned = "list"
                => \A i \in 1..Len(profiles) :
                       profiles[i].profile_type = "sales_navigator_search"

\* the Sales Navigator flow has returned a named record
C24_Witness ==
    /\ pc = "done"
    /\ returned = "record"
    /\ page_type = "sales_navigator_profile"
    /\ profile.profile_type = "sales_navigator"
    /\ profile.extraction_success

---------------------------------------------------------------------------
(* Claims about the contact-reveal interaction (SpecModal) *)

\* the moves of one interaction: the four in order, and the two exits a
\* raising click or a raising read takes
InteractionMoves ==
    { <<"closed", "triggered">>, <<"triggered", "rendered">>,
      <<"rendered", "scanned">>, <<"scanned", "closed">>,
      <<"closed", "closed">>, <<"rendered", "closed">> }

\* one step of the interaction code: the steps come in order, a trigger is
\* clicked only when no interaction is under way, at most two triggers are
\* clicked, no failure leaves the function, and an interaction that ends
\* with a failure at one of the steps in `voiding` has left the record as
\* it was when its trigger was clicked
InteractionStep(voiding) ==
    pc = "modal"
      => /\ <<dom.step, dom'.step>> \in InteractionMoves
         /\ clicks' > clicks /\ dom.step # "scanned" => dom.step = "closed"
         /\ dom'.step = "triggered" => card_i <= 2
         /\ card_i' <= 3
         /\ exc' = "none"
         /\ pc' \in {"modal", "modal_done"}
         /\ (card_i' = card_i + 1 /\ dom'.failed \in voiding)
               => profile' = dom'.before

\* C25: each contact-reveal interaction runs closed -> triggered ->
\* rendered -> scanned -> close attempted, is over before the next trigger
\* is clicked, at most two triggers are activated, and a failure at any
\* step (click, read or close) adds no contact value from that interaction
\* and does not abort the extraction.
C25_AnyFailureAddsNothing ==
    [][InteractionStep({"click", "read", "close"})]_vars

\* as the code behaves: a failing click or read adds nothing; a failing
\* close comes after the scan, whose values stay in the record
C25_ClickOrReadFailureAddsNothing ==
    [][/\ InteractionStep({"click", "read"})
       /\ (pc = "modal" /\ dom.step = "scanned")
            => /\ profile' = profile
               /\ profile = scan_interaction(scan, dom.before, page_source)]_vars

\* the first of two interactions scanned a new value and then failed to
\* close the modal; the second trigger is still to be clicked
C25_Witness ==
    /\ pc = "modal"
    /\ scan = "modal"
    /\ dom.step = "closed"
    /\ dom.failed = "close"
    /\ profile # dom.before
    /\ card_i = 2
    /\ cards >= 2

---------------------------------------------------------------------------
(* Claims about create_enhanced_browser (SpecBrowserLive) *)

BrowserCallOver == pc \in {"browser_returned", "browser_raised"}

\* at most one stealth attempt, then at most one standard attempt; a driver
\* is returned exactly when the last attempt made it; stealth is never
\* attempted when it was requested without the library
BrowserAttemptsInOrder ==
    /\ browser.attempts \in {<<>>, <<"stealth">>, <<"standard">>,
                             <<"stealth", "standard">>}
    /\ pc = "browser_returned"
         => /\ browser.attempts # <<>>
            /\ browser.result
                 = IF browser.attempts[Len(browser.attempts)] = "stealth"
                   THEN "stealth_driver" ELSE "standard_driver"
    /\ pc = "browser_fallback" /\ browser.attempts = <<"stealth">>
         => browser.use_stealth = "yes"
    /\ (browser.requested = "yes" /\ ~browser.available)
         => \A i \in 1..Len(browser.attempts) : browser.attempts[i] # "stealth"

\* the call raised right after a failed standard attempt
RaisedAfterStandardAttempt ==
    /\ browser.attempts # <<>>
    /\ browser.attempts[Len(browser.attempts)] = "standard"
    /\ exc = "create_enhanced_browser"

\* the call raised while building the default configuration, before any
\* attempt: config was omitted and BROWSER_TIMEOUT is not a number
RaisedBuildingConfig ==
    /\ browser.attempts = <<>>
    /\ browser.depth = 0
    /\ browser.config = "none"
    /\ ~browser.env_timeout_ok
    /\ exc = "BrowserConfig"

\* C26: create_enhanced_browser always terminates, makes at most one stealth
\* attempt followed by at most one standard attempt, returns a driver if
\* either succeeds, raises only when the standard attempt fails, and makes
\* no stealth attempt when stealth was requested without the library.
C26_RaisesOnlyAfterStandardAttempt ==
    /\ <>BrowserCallOver
    /\ [](/\ BrowserAttemptsInOrder
          /\ pc = "browser_raised" => RaisedAfterStandardAttempt)

\* as the code behaves: it also raises, without any attempt, when the
\* default configuration cannot be built
C26_RaisesAfterStandardAttemptOrConfig ==
    /\ <>BrowserCallOver
    /\ [](/\ BrowserAttemptsInOrder
          /\ pc = "browser_raised"
               => RaisedAfterStandardAttempt \/ RaisedBuildingConfig)

\* the stealth attempt failed and the standard attempt returned a driver
C26_Witness ==
    /\ pc = "browser_returned"
    /\ browser.attempts = <<"stealth", "standard">>
    /\ browser.result = "standard_driver"
    /\ browser.depth = 1

\* the call raised before any attempt
C26_WitnessConfigRaise ==
    /\ pc = "browser_raised"
    /\ RaisedBuildingConfig

---------------------------------------------------------------------------
(* Claims about main() (SpecMain) *)

\* C27: every browser session created during a run of main() has been quit
\* when main returns, on every exit path.
C27_EverySessionQuit ==
    pc = "main_returned"
        => /\ sessions.main # "open"
           /\ sessions.demo # "open"

\* the part that holds: the scraper's own session is always quit
C27_MainSessionQuit ==
    pc = "main_returned" => sessions.main # "open"

---------------------------------------------------------------------------
(* Claims about save_profile, statement by statement (SpecTx) *)

\* the profile row stored under a record's linkedin_url
StoredRows(p) == select_by_url(rows, p.linkedin_url)

ContactPairs(p) ==
    LET pairs(type, list) == {<<type, list[i]>> : i \in 1..Len(list)}
    IN  pairs("email", p.emails) \cup pairs("phone", p.phones)
          \cup pairs("website", p.websites) \cup pairs("social", p.social_links)
          \cup pairs("address", p.addresses)

\* the rows of the contact table that belong to / do not belong to a profile
ContactsOf(tab, id) == SelectSeq(tab, LAMBDA c : c.profile_id = id)
ContactsOfOthers(tab, id) == SelectSeq(tab, LAMBDA c : c.profile_id # id)

\* C29: after a successful save_profile(r) the contact rows of r's profile
\* are exactly the (type, value) pairs of r's five lists, one row per pair,
\* and the contact rows of every other profile are as before.
C29_ContactsReplaced ==
    [][exc' = "none"
         => LET mine == ContactsOf(contacts', db_ret') IN
            /\ {<<mine[k].contact_type, mine[k].contact_value>>
                   : k \in 1..Len(mine)} = ContactPairs(profile')
            /\ Len(mine) = Cardinality(ContactPairs(profile'))
            /\ ContactsOfOthers(contacts', db_ret')
                 = ContactsOfOthers(contacts, db_ret')]_vars

\* a record that repeats one email address and shares one value between its
\* websites and its social links was saved over an earlier save of the same
\* linkedin_url, next to another profile with contact rows
C29_Witness ==
    /\ exc = "none"
    /\ profile.emails = <<EmailLower, EmailLower>>
    /\ profile.websites = <<UrlExternal>>
    /\ \E r \in StoredRows(profile) :
        /\ r.id = db_ret
        /\ r.created_at < r.updated_at
        /\ Len(ContactsOf(contacts, r.id)) = 4
        /\ ContactsOfOthers(contacts, r.id) # <<>>

---------------------------------------------------------------------------
(* Claims about extract_single_profile (SpecSingle) *)

\* extract_profile returned one record and its success flag is set
GotSuccessfulRecord ==
    /\ page_type # "sales_navigator_search"
    /\ profile.extraction_success

\* the call has returned: a record that this call saved, or None
SingleReturnsSavedOrNone ==
    pc = "single_returned"
        => \/ returned = "none"
           \/ /\ returned = "record"
              /\ exc = "none"
              /\ GotSuccessfulRecord
              /\ saves # <<>>
              /\ saves[Len(saves)].profile = profile
              /\ \E r \in StoredRows(profile) :
                    r.id = db_ret /\ r.updated_at = now

\* one step of the call: the sink is reached only with a successful single
\* record; anything else, and any exception, ends in None
SingleStep ==
    /\ (rows' # rows \/ saves' # saves \/ now' # now)
         => pc = "single_save" /\ GotSuccessfulRecord
    /\ (pc = "single_test" /\ ~GotSuccessfulRecord)
         => pc' = "single_returned" /\ returned' = "none"
    /\ (pc = "single_test" /\ GotSuccessfulRecord) => pc' = "single_save"
    /\ exc' # "none" /\ pc # "single_returned"
         => \/ pc' = "single_handler"
            \/ pc' = "single_returned" /\ returned' = "none"
    /\ (pc = "single_save" /\ exc' = "none")
         => pc' = "single_returned" /\ returned' = "record"

\* C30: extract_single_profile hands a record to save_profile only when
\* extract_profile returned a single record with success true, and then
\* returns that record; for an unsuccessful record, a list, or an exception
\* of the extraction or of the save it returns None; it never raises, and a
\* record it returns has been saved.
C30_ReturnsSavedRecordOrNone ==
    /\ [](pc # "raised" /\ SingleReturnsSavedOrNone)
    /\ [][SingleStep]_vars

\* a call returned the record it saved, after an earlier call whose save
\* had failed
C30_Witness ==
    /\ pc = "single_returned"
    /\ returned = "record"
    /\ GotSuccessfulRecord
    /\ saves = <<[profile |-> profile, id |-> db_ret]>>
    /\ now = 2
====
